---- MODULE Spec2Model ----
(***************************************************************************)
(* Model of the indexer walker (WalkDirTask) of                            *)
(* core/crates/heavy-lifting/src/tasks/indexer/walker.rs, and of the event *)
(* forwarder and the receive loop of core/src/p2p.                         *)
(*                                                                         *)
(* Spec      one WalkDirTask driven by the task system: every await point  *)
(*           of run() is a step, every check_interruption! may suspend or  *)
(*           cancel, every collaborator call draws its answer when made.   *)
(* SpecRules the per-entry rule decision of process_rules_results applied  *)
(*           to every bounded rule-result map.                             *)
(* SpecTree, SpecListing, SpecLinks, SpecRerun, SpecForest                 *)
(*           the recursive walk of a tree, one task per directory: under   *)
(*           rules, without rules over every tree, over trees with         *)
(*           symbolic links, and walked a second time against the records  *)
(*           of the first walk.                                            *)
(* SpecWalk  one task from its directory listing to its WalkOutput.        *)
(* SpecDiff  segregate_creates_and_updates against a store of records.     *)
(* SpecPool  the tasks of a walk run by a pool of one worker.              *)
(* SpecLive  Spec and SpecPool under weak fairness of their steps.         *)
(* SpecEvents  the task of P2PEvents::spawn (p2p_events.rs).               *)
(* SpecStreams the loop of start (p2p_manager.rs).                         *)
(*                                                                         *)
(* Conventions.  Option<T> is a sequence of length <= 1: None is << >>,    *)
(* Some(v) is <<v>>.  Result<T, E> is a record: Ok(v) has ok TRUE and val, *)
(* Err(e) has ok FALSE and err.  A HashMap is a function                   *)
(* on its key set, a HashSet a set.  A Vec that the code fills while       *)
(* draining a HashMap has no defined order and is kept as a set; the       *)
(* non-critical error Vec is kept as a bag for the same reason.  A path is *)
(* the sequence of its components.                                         *)
(***************************************************************************)
EXTENDS Naturals, Integers, Sequences, FiniteSets, Bags, TLC

(***************************************************************************)
(* Bounds of the model.                                                    *)
(***************************************************************************)
\* longest directory-entry stream (entries and enumeration errors together)
MaxStream == 2
\* most collaborator failures injected into one execution
MaxFaults == 2
\* most registered rules of one kind
MaxRules == 2

\* names a directory listing may contain
Names == {"a", "b"}

None == << >>
Some(v) == <<v>>
IsSome(o) == o # << >>
Unwrap(o) == o[1]

\* the walk root (the location path)
root == <<"loc">>

RuleKinds ==
  {"AcceptFilesByGlob", "RejectFilesByGlob",
   "AcceptIfChildrenDirectoriesArePresent",
   "RejectIfChildrenDirectoriesArePresent"}

Stages ==
  <<"Start", "Walking", "CollectingMetadata", "CheckingIndexerRules",
    "ProcessingRulesResults", "GatheringFilePathsToRemove", "Finalize">>

StageIndex(tag) == CHOOSE i \in 1..Len(Stages) : Stages[i] = tag

VARIABLES
  entry,            \* ToWalkEntry of the task
  maybe_dispatcher, \* TRUE iff the task was built with Some(dispatcher)
  db,               \* persisted file_path records (the store behind db_proxy)
  stage,            \* WalkerStage: a record [tag, <the data of that variant>]
  errors,           \* self.errors, a bag of NonCriticalJobError
  status,           \* what the task system sees: ready, running, paused,
                    \* canceled, done, failed
  output,           \* Option<WalkOutput> returned by ExecStatus::Done
  dispatched,       \* tasks handed to dispatcher.dispatch_many
  world,            \* the collaborators' answers given so far
  fatal,            \* Option<Error>: the Err run returned
  faults,           \* number of failing answers so far
  work,             \* work[s]: how many times the body of stage s completed
  suspended,        \* whether run has returned Paused: never, clean (with
                    \* no error recorded yet) or with_errors
  rin,              \* SpecRules: the drawn input of the rule decision
  rout,             \* SpecRules: the result of the rule decision
  tree,             \* SpecTree: the directory tree under the walk root and
                    \* the rule results of its entries
  pool,             \* SpecTree: the tasks dispatched and not yet run
  outputs,          \* SpecTree: the WalkOutputs of the tasks that are done
  worker,           \* SpecPool: the task the one worker of the task system
                    \* is running, with its WalkOutput once it has one
  plan,             \* SpecPool: the WalkOutput a run of each task of the
                    \* walk ends with
  pass,             \* SpecTree: which walk of the location is running (0
                    \* where no walk is, 1 the first, 2 the second)
  din,              \* SpecDiff: the drawn walking entries and records
  dout,             \* SpecDiff: the result of segregate_creates_and_updates
  connections,      \* SpecEvents: the listeners each peer is connected with
  hook_rx,          \* SpecEvents: the HookEvents sent to the "p2p-events"
                    \* hook and not yet received
  received,         \* SpecEvents: the HookEvents the forwarder has received
  events,           \* SpecEvents: the P2PEvents sent on the broadcast channel
  forwarder,        \* SpecEvents: the spawned task: running, finished or
                    \* panicked (none where there is no P2PEvents)
  hooked,           \* SpecEvents: how many HookEvents the P2P system raised
  stream_rx,        \* SpecStreams: the UnicastStreams sent to start and not
                    \* yet received
  arrived,          \* SpecStreams: how many streams have arrived
  current,          \* SpecStreams: the stream start is handling
  handled,          \* SpecStreams: the streams start has dealt with, each
                    \* with its header and the result of its handler
  receive_loop      \* SpecStreams: start: running, or what it returned (ok,
                    \* err); none where there is no P2PManager

vars ==
  <<entry, maybe_dispatcher, db, stage, errors, status, output, dispatched,
    world, fatal, faults, work, suspended, rin, rout, tree, pool, outputs,
    worker, plan, pass, din, dout, connections, hook_rx, received, events,
    forwarder, hooked, stream_rx, arrived, current, handled, receive_loop>>

taskVars ==
  <<entry, maybe_dispatcher, db, stage, errors, status, output, dispatched,
    world, fatal, faults, work, suspended>>

ruleVars == <<rin, rout>>

treeVars == <<tree, pool, outputs, worker, plan, pass>>

diffVars == <<din, dout>>

eventsVars == <<connections, hook_rx, received, events, forwarder, hooked>>

streamVars == <<stream_rx, arrived, current, handled, receive_loop>>

p2pVars == <<eventsVars, streamVars>>


(***************************************************************************)
(* Rule results: HashMap<RuleKind, Vec<bool>>.  The rule engine reports a  *)
(* kind only when a rule of that kind is registered, one boolean per rule. *)
(***************************************************************************)
BoolVecs == UNION {[1..n -> BOOLEAN] : n \in 1..MaxRules}

RuleMaps == UNION {[S -> BoolVecs] : S \in SUBSET RuleKinds}

OptionBool == {None, Some(TRUE), Some(FALSE)}

\* Iterator::any and Iterator::all over a Vec<bool>
AnyTrue(v) == \E i \in 1..Len(v) : v[i]
AnyFalse(v) == \E i \in 1..Len(v) : ~v[i]
AllFalse(v) == \A i \in 1..Len(v) : ~v[i]

\* mutant: an unset option counts as false
unwrap_or_false(o, default) == IF o = None THEN FALSE ELSE o[1]

\* Option::unwrap_or
unwrap_or(o, default) == IF o = None THEN default ELSE o[1]

\* mutant: one false AcceptFilesByGlob result is enough to reject
rejected_by_accept_glob_any_false(acceptance_per_rule_kind) ==
  IF "AcceptFilesByGlob" \in DOMAIN acceptance_per_rule_kind
  THEN AnyFalse(acceptance_per_rule_kind["AcceptFilesByGlob"])
  ELSE FALSE

rejected_by_accept_glob(acceptance_per_rule_kind) ==
  IF "AcceptFilesByGlob" \in DOMAIN acceptance_per_rule_kind
  THEN AllFalse(acceptance_per_rule_kind["AcceptFilesByGlob"])
  ELSE FALSE

\* mutant: rejects on a true result instead of a false one
rejected_by_children_directories_any_true(acceptance_per_rule_kind) ==
  IF "RejectIfChildrenDirectoriesArePresent" \in DOMAIN acceptance_per_rule_kind
  THEN AnyTrue(acceptance_per_rule_kind["RejectIfChildrenDirectoriesArePresent"])
  ELSE FALSE

rejected_by_children_directories(acceptance_per_rule_kind) ==
  IF "RejectIfChildrenDirectoriesArePresent" \in DOMAIN acceptance_per_rule_kind
  THEN AnyFalse(acceptance_per_rule_kind["RejectIfChildrenDirectoriesArePresent"])
  ELSE FALSE

\* mutant: a true AcceptFilesByGlob result outranks the reject glob
rejected_by_reject_glob_unless_accepted(acceptance_per_rule_kind) ==
  /\ "RejectFilesByGlob" \in DOMAIN acceptance_per_rule_kind
  /\ AnyFalse(acceptance_per_rule_kind["RejectFilesByGlob"])
  /\ ~(/\ "AcceptFilesByGlob" \in DOMAIN acceptance_per_rule_kind
       /\ AnyTrue(acceptance_per_rule_kind["AcceptFilesByGlob"]))

rejected_by_reject_glob(acceptance_per_rule_kind) ==
  IF "RejectFilesByGlob" \in DOMAIN acceptance_per_rule_kind
  THEN AnyFalse(acceptance_per_rule_kind["RejectFilesByGlob"])
  ELSE FALSE

\* mutant: a queued entry names the walk root as its parent
ToWalkEntryUnderRoot(path, flag, maybe_parent) ==
  [path |-> path,
   parent_dir_accepted_by_its_children |-> flag,
   maybe_parent |-> IF maybe_parent = << >> THEN maybe_parent
                    ELSE <<SubSeq(path, 1, 1)>>]

\* mutant: a queued entry does not carry the flag of its evaluation
ToWalkEntryWithoutFlag(path, flag, maybe_parent) ==
  [path |-> path,
   parent_dir_accepted_by_its_children |-> None,
   maybe_parent |-> maybe_parent]

ToWalkEntry(path, flag, maybe_parent) ==
  [path |-> path,
   parent_dir_accepted_by_its_children |-> flag,
   maybe_parent |-> maybe_parent]

\* mutant: no directory is queued
PushToKeepWalkingNever(maybe_to_keep_walking, e) == maybe_to_keep_walking

\* Vec::push on an Option<Vec<ToWalkEntry>> kept as Option<bag>
PushToKeepWalking(maybe_to_keep_walking, e) ==
  IF IsSome(maybe_to_keep_walking)
  THEN Some(Unwrap(maybe_to_keep_walking) (+) SetToBag({e}))
  ELSE maybe_to_keep_walking

\* mutant: marks the directory rejected whenever no result is true, also
\* over a flag inherited from the parent
children_acceptance_overriding(acceptance_per_rule_kind, accept_by_children_dir) ==
  IF "AcceptIfChildrenDirectoriesArePresent" \in DOMAIN acceptance_per_rule_kind
  THEN IF AnyTrue(acceptance_per_rule_kind["AcceptIfChildrenDirectoriesArePresent"])
       THEN Some(TRUE)
       ELSE Some(FALSE)
  ELSE accept_by_children_dir

\* The flag after the AcceptIfChildrenDirectoriesArePresent block
\* (walker.rs 672-688): Some(true) on any true result, and Some(false) only
\* when the flag is still None after that.
children_acceptance(acceptance_per_rule_kind, accept_by_children_dir) ==
  IF "AcceptIfChildrenDirectoriesArePresent" \in DOMAIN acceptance_per_rule_kind
  THEN LET accepted_by_children_rules ==
             acceptance_per_rule_kind["AcceptIfChildrenDirectoriesArePresent"]
           after_any ==
             IF AnyTrue(accepted_by_children_rules)
             THEN Some(TRUE)
             ELSE accept_by_children_dir
       IN IF after_any = None THEN Some(FALSE) ELSE after_any
  ELSE accept_by_children_dir

\* Returns the bool of the source as .rejected; the two &mut parameters are
\* returned as they are left.
process_and_maybe_reject_by_directory_rules(current_path, parent, acceptance_per_rule_kind, accept_by_children_dir, maybe_to_keep_walking) ==
  IF rejected_by_children_directories(acceptance_per_rule_kind)
  THEN [rejected |-> TRUE,
        accept_by_children_dir |-> accept_by_children_dir,
        maybe_to_keep_walking |-> maybe_to_keep_walking]
  ELSE LET flag == children_acceptance(acceptance_per_rule_kind,
                                       accept_by_children_dir)
       IN [rejected |-> FALSE,
           accept_by_children_dir |-> flag,
           maybe_to_keep_walking |->
             PushToKeepWalking(maybe_to_keep_walking,
                               ToWalkEntry(current_path, flag, Some(parent)))]

\* mutant: only the nearest ancestor is registered
ancestors_loop_nearest(current_path, i, rt, accepted_ancestors) ==
  IF i < 0 \/ SubSeq(current_path, 1, i) = rt
  THEN accepted_ancestors
  ELSE accepted_ancestors \cup {SubSeq(current_path, 1, i)}

\* The for loop of accept_ancestors: Path::ancestors().skip(1) from the
\* nearest ancestor (the prefix of length i) upwards, take_while it is not
\* the root, break at the first ancestor already in the set.
RECURSIVE ancestors_loop(_, _, _, _)
ancestors_loop(current_path, i, rt, accepted_ancestors) ==
  IF i < 0
  THEN accepted_ancestors
  ELSE LET ancestor == SubSeq(current_path, 1, i)
       IN IF ancestor = rt
          THEN accepted_ancestors
          ELSE IF ancestor \in accepted_ancestors
               THEN accepted_ancestors
               ELSE ancestors_loop(current_path, i - 1, rt,
                                   accepted_ancestors \cup {ancestor})

\* HashMap::insert
MapInsert(m, k, v) == [x \in DOMAIN m \cup {k} |-> IF x = k THEN v ELSE m[x]]

accept_ancestors(current_path, metadata, rt, accepted, accepted_ancestors) ==
  [accepted |-> MapInsert(accepted, current_path, metadata),
   accepted_ancestors |->
     ancestors_loop(current_path, Len(current_path) - 1, rt,
                    accepted_ancestors)]

EmptyMap == [x \in {} |-> {}]

\* mutant: a directory rejected by the accept glob is not queued either
process_entry_dropping(source_directory, rt, parent_dir_accepted_by_its_children, current_path, metadata, acceptance_per_rule_kind, acc) ==
  IF rejected_by_reject_glob(acceptance_per_rule_kind)
  THEN acc
  ELSE LET is_dir == metadata.kind = "dir"
           dir_rules ==
             IF is_dir
             THEN process_and_maybe_reject_by_directory_rules(
                    current_path, source_directory, acceptance_per_rule_kind,
                    parent_dir_accepted_by_its_children,
                    acc.maybe_to_keep_walking)
             ELSE [rejected |-> FALSE,
                   accept_by_children_dir |->
                     parent_dir_accepted_by_its_children,
                   maybe_to_keep_walking |-> acc.maybe_to_keep_walking]
           queued ==
             [acc EXCEPT !.maybe_to_keep_walking =
                           dir_rules.maybe_to_keep_walking]
       IN IF dir_rules.rejected
          THEN acc
          ELSE IF rejected_by_accept_glob(acceptance_per_rule_kind)
               THEN acc
               ELSE IF unwrap_or(dir_rules.accept_by_children_dir, TRUE)
                    THEN LET a == accept_ancestors(current_path, metadata, rt,
                                    queued.accepted, queued.accepted_ancestors)
                         IN [queued EXCEPT
                               !.accepted = a.accepted,
                               !.accepted_ancestors = a.accepted_ancestors]
                    ELSE queued

\* mutant: a directory rejected by the reject glob is not accepted, but is
\* queued to be walked
process_entry_walking_rejected(source_directory, rt, parent_dir_accepted_by_its_children, current_path, metadata, acceptance_per_rule_kind, acc) ==
  LET is_dir == metadata.kind = "dir"
      dir_rules ==
        IF is_dir
        THEN process_and_maybe_reject_by_directory_rules(
               current_path, source_directory, acceptance_per_rule_kind,
               parent_dir_accepted_by_its_children,
               acc.maybe_to_keep_walking)
        ELSE [rejected |-> FALSE,
              accept_by_children_dir |->
                parent_dir_accepted_by_its_children,
              maybe_to_keep_walking |-> acc.maybe_to_keep_walking]
      queued ==
        [acc EXCEPT !.maybe_to_keep_walking =
                      dir_rules.maybe_to_keep_walking]
  IN IF dir_rules.rejected
     THEN acc
     ELSE IF \/ rejected_by_reject_glob(acceptance_per_rule_kind)
             \/ rejected_by_accept_glob(acceptance_per_rule_kind)
          THEN queued
          ELSE IF unwrap_or(dir_rules.accept_by_children_dir, TRUE)
               THEN LET a == accept_ancestors(current_path, metadata, rt,
                               queued.accepted, queued.accepted_ancestors)
                    IN [queued EXCEPT
                          !.accepted = a.accepted,
                          !.accepted_ancestors = a.accepted_ancestors]
               ELSE queued

\* One step of the fold of process_rules_results (the closure at 602-656);
\* acc is [accepted, accepted_ancestors, maybe_to_keep_walking].
process_entry(source_directory, rt, parent_dir_accepted_by_its_children, current_path, metadata, acceptance_per_rule_kind, acc) ==
  IF rejected_by_reject_glob(acceptance_per_rule_kind)
  THEN acc
  ELSE LET is_dir == metadata.kind = "dir"
           dir_rules ==
             IF is_dir
             THEN process_and_maybe_reject_by_directory_rules(
                    current_path, source_directory, acceptance_per_rule_kind,
                    parent_dir_accepted_by_its_children,
                    acc.maybe_to_keep_walking)
             ELSE [rejected |-> FALSE,
                   accept_by_children_dir |->
                     parent_dir_accepted_by_its_children,
                   maybe_to_keep_walking |-> acc.maybe_to_keep_walking]
           queued ==
             [acc EXCEPT !.maybe_to_keep_walking =
                           dir_rules.maybe_to_keep_walking]
       IN IF dir_rules.rejected
          THEN acc
          ELSE IF rejected_by_accept_glob(acceptance_per_rule_kind)
               THEN queued
               ELSE IF unwrap_or(dir_rules.accept_by_children_dir, TRUE)
                    THEN LET a == accept_ancestors(current_path, metadata, rt,
                                    queued.accepted, queued.accepted_ancestors)
                         IN [queued EXCEPT
                               !.accepted = a.accepted,
                               !.accepted_ancestors = a.accepted_ancestors]
                    ELSE queued

\* mutant: accept_by_children_dir is declared outside the closure, so the
\* flag an entry leaves is the flag the next entry starts from
RECURSIVE process_rules_fold_leaking(_, _, _, _, _)
process_rules_fold_leaking(source_directory, rt, parent_dir_accepted_by_its_children, paths_metadatas_and_acceptance, acc) ==
  IF DOMAIN paths_metadatas_and_acceptance = {}
  THEN acc
  ELSE LET current_path == CHOOSE p \in DOMAIN paths_metadatas_and_acceptance : TRUE
           rest == [p \in DOMAIN paths_metadatas_and_acceptance \ {current_path}
                      |-> paths_metadatas_and_acceptance[p]]
           item == paths_metadatas_and_acceptance[current_path]
           left ==
             IF /\ item.metadata.kind = "dir"
                /\ ~rejected_by_reject_glob(item.acceptance)
                /\ ~rejected_by_children_directories(item.acceptance)
             THEN children_acceptance(item.acceptance,
                                      parent_dir_accepted_by_its_children)
             ELSE parent_dir_accepted_by_its_children
       IN process_rules_fold_leaking(source_directory, rt, left, rest,
            process_entry(source_directory, rt,
              parent_dir_accepted_by_its_children, current_path,
              item.metadata, item.acceptance, acc))

\* HashMap::drain().fold(...): the entries are visited in an order the
\* HashMap decides; the fold's result does not depend on it, the steps of
\* different keys touch different keys of accepted and the same ancestors.
RECURSIVE process_rules_fold(_, _, _, _, _)
process_rules_fold(source_directory, rt, parent_dir_accepted_by_its_children, paths_metadatas_and_acceptance, acc) ==
  IF DOMAIN paths_metadatas_and_acceptance = {}
  THEN acc
  ELSE LET current_path == CHOOSE p \in DOMAIN paths_metadatas_and_acceptance : TRUE
           rest == [p \in DOMAIN paths_metadatas_and_acceptance \ {current_path}
                      |-> paths_metadatas_and_acceptance[p]]
           item == paths_metadatas_and_acceptance[current_path]
       IN process_rules_fold(source_directory, rt,
            parent_dir_accepted_by_its_children, rest,
            process_entry(source_directory, rt,
              parent_dir_accepted_by_its_children, current_path,
              item.metadata, item.acceptance, acc))

process_rules_results(source_directory, rt, parent_dir_accepted_by_its_children, paths_metadatas_and_acceptance, maybe_to_keep_walking) ==
  process_rules_fold(source_directory, rt,
    parent_dir_accepted_by_its_children, paths_metadatas_and_acceptance,
    [accepted |-> EmptyMap,
     accepted_ancestors |-> {},
     maybe_to_keep_walking |-> maybe_to_keep_walking])


(***************************************************************************)
(* Collaborator answers and the values they carry.                         *)
(***************************************************************************)
Ok(v) == [ok |-> TRUE, val |-> v]
Err(e) == [ok |-> FALSE, err |-> e]

\* NonCriticalIndexerError variants, each with what it was raised for
NonCriticalError(kind, subject) == [kind |-> kind, subject |-> subject]

\* std::fs::Metadata as far as the walker reads it
Metadata(kind, inode, modified_at, hidden, size_in_bytes) ==
  [kind |-> kind, inode |-> inode, modified_at |-> modified_at,
   hidden |-> hidden, size_in_bytes |-> size_in_bytes]

\* an entry of a directory as it is on disk: whether the entry itself is a
\* symbolic link, and the Metadata of what it is or links to (None for a
\* link whose target is missing)
DiskEntry(is_link, target) == [is_link |-> is_link, target |-> target]

\* tokio::fs::metadata(path): the call follows symbolic links, so what it
\* returns is the Metadata of the target, for which is_symlink is false
fs_metadata(disk_entry) ==
  IF disk_entry.target = None
  THEN Err("io")
  ELSE Ok(Unwrap(disk_entry.target))

\* the kinds of the Metadata fs_metadata returns
FileKinds == {"file", "dir"}

\* the metadata the stat of one entry may return in Spec
SpecMetadatas == {Metadata(k, 1, 10, FALSE, 1) : k \in FileKinds}

\* the rule results the rule engine may return in Spec
SpecRuleMaps ==
  {EmptyMap,
   [k \in {"RejectFilesByGlob"} |-> <<FALSE>>],
   [k \in {"AcceptFilesByGlob"} |-> <<FALSE>>],
   [k \in {"AcceptIfChildrenDirectoriesArePresent"} |-> <<FALSE>>],
   [k \in {"RejectIfChildrenDirectoriesArePresent"} |-> <<FALSE>>]}

\* IsolatedFilePathData::new: the path relative to the location root and
\* the is_dir flag (both are part of its identity)
IsolatedFilePathData(rt, path, is_dir) ==
  [relative_path |-> SubSeq(path, Len(rt) + 1, Len(path)), is_dir |-> is_dir]

\* file_path::WhereParam::from(&iso_file_path): the unique key of a record,
\* which does not hold is_dir
WhereParam(iso_file_path) == iso_file_path.relative_path

\* FilePathMetadata::from_path
FilePathMetadata(metadata) ==
  [inode |-> metadata.inode, size_in_bytes |-> metadata.size_in_bytes,
   modified_at |-> metadata.modified_at, hidden |-> metadata.hidden]

\* a persisted file_path record
FilePathRecord(pub_id, iso, inode, date_modified, hidden, size) ==
  [pub_id |-> pub_id, iso_file_path |-> iso, inode |-> inode,
   date_modified |-> date_modified, hidden |-> hidden,
   size_in_bytes_bytes |-> size]

\* the stores a task over directory dir may run against in Spec: empty; a
\* record of file a as a stat would observe it, with a stale record z; a
\* record of file a with an older modification time
DbStates(dir) ==
  LET a == IsolatedFilePathData(root, dir \o <<"a">>, FALSE)
      z == IsolatedFilePathData(root, dir \o <<"z">>, FALSE)
  IN {{},
      {FilePathRecord("pa", a, Some(1), Some(10), Some(FALSE), Some(1)),
       FilePathRecord("pz", z, Some(1), Some(10), Some(FALSE), Some(1))},
      {FilePathRecord("pa", a, Some(1), Some(5), Some(FALSE), Some(1))}}

\* WalkerDBProxy::fetch_file_paths: the records with one of the given keys
fetch_file_paths(store, found_paths) ==
  {r \in store : WhereParam(r.iso_file_path) \in found_paths}

ParentOf(path) == SubSeq(path, 1, Len(path) - 1)

\* WalkerDBProxy::fetch_file_paths_to_remove: the records directly under
\* the parent whose key is not among the given ones
fetch_file_paths_to_remove(store, parent_iso_file_path, params) ==
  {r \in store :
     /\ Len(r.iso_file_path.relative_path) > 0
     /\ ParentOf(r.iso_file_path.relative_path)
          = parent_iso_file_path.relative_path
     /\ WhereParam(r.iso_file_path) \notin params}

(***************************************************************************)
(* The stages' functions.                                                  *)
(***************************************************************************)
\* mutant: the failures are filtered out without being pushed to errors
RECURSIVE collect_results_silent(_, _, _, _)
collect_results_silent(results, i, map, errs) ==
  IF i > Len(results)
  THEN [map |-> map, errors |-> errs]
  ELSE IF results[i].ok
       THEN collect_results_silent(results, i + 1,
              MapInsert(map, results[i].val[1], results[i].val[2]), errs)
       ELSE collect_results_silent(results, i + 1, map, errs)

\* mutant: a fail-fast join, which ends at the first failure
RECURSIVE collect_results_fail_fast(_, _, _, _)
collect_results_fail_fast(results, i, map, errs) ==
  IF i > Len(results)
  THEN [map |-> map, errors |-> errs]
  ELSE IF results[i].ok
       THEN collect_results_fail_fast(results, i + 1,
              MapInsert(map, results[i].val[1], results[i].val[2]), errs)
       ELSE [map |-> map, errors |-> errs (+) SetToBag({results[i].err})]

\* into_iter().filter_map(|res| res.map_err(|e| errors.push(e)).ok())
\* .collect::<HashMap>() over the joined results, in their order
RECURSIVE collect_results(_, _, _, _)
collect_results(results, i, map, errs) ==
  IF i > Len(results)
  THEN [map |-> map, errors |-> errs]
  ELSE IF results[i].ok
       THEN collect_results(results, i + 1,
              MapInsert(map, results[i].val[1], results[i].val[2]), errs)
       ELSE collect_results(results, i + 1, map,
              errs (+) SetToBag({results[i].err}))

\* stat is the answers of fs::metadata, one per path
collect_metadata(found_paths, errs, stat) ==
  LET results ==
        [i \in 1..Len(found_paths) |->
           IF stat[found_paths[i]].ok
           THEN Ok(<<found_paths[i], stat[found_paths[i]].val>>)
           ELSE Err(NonCriticalError("Metadata", found_paths[i]))]
      r == collect_results(results, 1, EmptyMap, errs)
  IN [paths_and_metadatas |-> r.map, errors |-> r.errors]

\* some enumeration of a set, as HashMap::drain yields one
RECURSIVE SeqOf(_)
SeqOf(S) ==
  IF S = {} THEN << >>
  ELSE LET x == CHOOSE x \in S : TRUE IN <<x>> \o SeqOf(S \ {x})

\* rules is the answers of IndexerRuler::apply_all, one per path
apply_indexer_rules(paths_and_metadatas, errs, rules) ==
  LET drained ==
        SeqOf({p \in DOMAIN paths_and_metadatas :
                 paths_and_metadatas[p].kind # "symlink"})
      results ==
        [i \in 1..Len(drained) |->
           IF rules[drained[i]].ok
           THEN Ok(<<drained[i],
                     [metadata |-> paths_and_metadatas[drained[i]],
                      acceptance |-> rules[drained[i]].val]>>)
           ELSE Err(NonCriticalError("IndexerRule", drained[i]))]
      r == collect_results(results, 1, EmptyMap, errs)
  IN [paths_metadatas_and_acceptance |-> r.map, errors |-> r.errors]

\* The filter_map of gather_file_paths_to_remove for one accepted path;
\* conv says whether IsoFilePathFactory::build and
\* FilePathMetadata::from_path succeed for it.
RECURSIVE gather_walking(_, _, _, _, _)
gather_walking(drained, i, accepted_paths, conv, acc) ==
  IF i > Len(drained)
  THEN acc
  ELSE LET path == drained[i]
           metadata == accepted_paths[path]
           iso_file_path ==
             IsolatedFilePathData(root, path, metadata.kind = "dir")
       IN IF conv[path] = "iso_err"
          THEN gather_walking(drained, i + 1, accepted_paths, conv,
                 [acc EXCEPT !.errors =
                    @ (+) SetToBag({NonCriticalError("IsoFilePath", path)})])
          ELSE IF conv[path] = "metadata_err"
          THEN gather_walking(drained, i + 1, accepted_paths, conv,
                 [acc EXCEPT !.errors =
                    @ (+) SetToBag({NonCriticalError("FilePathMetadata", path)})])
          ELSE gather_walking(drained, i + 1, accepted_paths, conv,
                 [acc EXCEPT
                    !.walking = @ (+) SetToBag(
                      {[iso_file_path |-> iso_file_path,
                        metadata |-> FilePathMetadata(metadata)]}),
                    !.to_delete_params = @ \cup {WhereParam(iso_file_path)}])

\* mutant: a failed removal query gives up the walking entries as well
gather_file_paths_to_remove_giving_up(accepted_paths, parent_iso_file_path, conv, store, remove, errs) ==
  LET g == gather_walking(SeqOf(DOMAIN accepted_paths), 1, accepted_paths,
             conv,
             [walking |-> EmptyBag, to_delete_params |-> {}, errors |-> errs])
  IN IF remove = "ok"
     THEN [walking_entries |-> g.walking,
           to_remove_entries |->
             fetch_file_paths_to_remove(store, parent_iso_file_path,
                                        g.to_delete_params),
           errors |-> g.errors]
     ELSE [walking_entries |-> EmptyBag,
           to_remove_entries |-> {},
           errors |-> g.errors (+)
             SetToBag({NonCriticalError("FetchFilePathsToRemove",
                                        parent_iso_file_path.relative_path)})]

\* mutant: the removal query is given no key of the accepted entries
gather_file_paths_to_remove_no_params(accepted_paths, parent_iso_file_path, conv, store, remove, errs) ==
  LET g == gather_walking(SeqOf(DOMAIN accepted_paths), 1, accepted_paths,
             conv,
             [walking |-> EmptyBag, to_delete_params |-> {}, errors |-> errs])
  IN IF remove = "ok"
     THEN [walking_entries |-> g.walking,
           to_remove_entries |->
             fetch_file_paths_to_remove(store, parent_iso_file_path, {}),
           errors |-> g.errors]
     ELSE [walking_entries |-> g.walking,
           to_remove_entries |-> {},
           errors |-> g.errors (+)
             SetToBag({NonCriticalError("FetchFilePathsToRemove",
                                        parent_iso_file_path.relative_path)})]

\* remove is the answer of db_proxy.fetch_file_paths_to_remove: Ok or Err
gather_file_paths_to_remove(accepted_paths, parent_iso_file_path, conv, store, remove, errs) ==
  LET g == gather_walking(SeqOf(DOMAIN accepted_paths), 1, accepted_paths,
             conv,
             [walking |-> EmptyBag, to_delete_params |-> {}, errors |-> errs])
  IN IF remove = "ok"
     THEN [walking_entries |-> g.walking,
           to_remove_entries |->
             fetch_file_paths_to_remove(store, parent_iso_file_path,
                                        g.to_delete_params),
           errors |-> g.errors]
     ELSE [walking_entries |-> g.walking,
           to_remove_entries |-> {},
           errors |-> g.errors (+)
             SetToBag({NonCriticalError("FetchFilePathsToRemove",
                                        parent_iso_file_path.relative_path)})]


\* Duration::milliseconds(1), the tolerated loss of precision of stored
\* modification times; times are in milliseconds
UpdateDeltaMillis == 1

\* some enumeration of a bag, every element as often as it is in it
RECURSIVE BagSeq(_)
BagSeq(B) ==
  IF BagToSet(B) = {} THEN << >>
  ELSE LET x == CHOOSE x \in BagToSet(B) : TRUE
       IN <<x>> \o BagSeq(B (-) SetToBag({x}))

WalkedEntry(pub_id, iso_file_path, metadata) ==
  [pub_id |-> pub_id, iso_file_path |-> iso_file_path, metadata |-> metadata]

\* mutant: an unset stored hidden flag is read as not hidden
needs_update_defaulting(walking_entry, file_path) ==
  /\ \/ Unwrap(file_path.inode) # walking_entry.metadata.inode
     \/ walking_entry.metadata.modified_at - Unwrap(file_path.date_modified)
          > UpdateDeltaMillis
     \/ walking_entry.metadata.hidden # unwrap_or(file_path.hidden, FALSE)
  /\ ~(/\ walking_entry.iso_file_path.is_dir
       /\ walking_entry.metadata.size_in_bytes
            # unwrap_or(file_path.size_in_bytes_bytes, 0))

\* The condition of the if at walker.rs 450-478, for a record whose inode
\* and date_modified are set; inode_from_db decodes the stored bytes, kept
\* here as the number they encode.
needs_update(walking_entry, file_path) ==
  /\ \/ Unwrap(file_path.inode) # walking_entry.metadata.inode
     \/ walking_entry.metadata.modified_at - Unwrap(file_path.date_modified)
          > UpdateDeltaMillis
     \/ file_path.hidden = None
     \/ walking_entry.metadata.hidden # unwrap_or(file_path.hidden, FALSE)
  /\ ~(/\ walking_entry.iso_file_path.is_dir
       /\ walking_entry.metadata.size_in_bytes
            # unwrap_or(file_path.size_in_bytes_bytes, 0))

\* mutant: a record whose inode or modification time is unset counts as no
\* record
RECURSIVE segregate_fold_recreating(_, _, _, _)
segregate_fold_recreating(entries, i, iso_paths_already_in_db, acc) ==
  IF i > Len(entries)
  THEN acc
  ELSE LET walking_entry == entries[i]
           sized == [acc EXCEPT !.total_size =
                       @ + walking_entry.metadata.size_in_bytes]
           known ==
             /\ walking_entry.iso_file_path \in DOMAIN iso_paths_already_in_db
             /\ IsSome(iso_paths_already_in_db[walking_entry.iso_file_path].inode)
             /\ IsSome(iso_paths_already_in_db[walking_entry.iso_file_path].date_modified)
       IN IF known
          THEN LET file_path ==
                     iso_paths_already_in_db[walking_entry.iso_file_path]
               IN IF needs_update(walking_entry, file_path)
                  THEN segregate_fold_recreating(entries, i + 1,
                         iso_paths_already_in_db,
                         [sized EXCEPT !.to_update =
                            @ (+) SetToBag({WalkedEntry(file_path.pub_id,
                                   walking_entry.iso_file_path,
                                   walking_entry.metadata)})])
                  ELSE segregate_fold_recreating(entries, i + 1,
                         iso_paths_already_in_db, sized)
          ELSE segregate_fold_recreating(entries, i + 1,
                 iso_paths_already_in_db,
                 [sized EXCEPT !.to_create =
                    @ (+) SetToBag({WalkedEntry("new_v4",
                           walking_entry.iso_file_path,
                           walking_entry.metadata)})])

\* mutant: a record whose inode or modification time is unset is updated
RECURSIVE segregate_fold_updating_unset(_, _, _, _)
segregate_fold_updating_unset(entries, i, iso_paths_already_in_db, acc) ==
  IF i > Len(entries)
  THEN acc
  ELSE LET walking_entry == entries[i]
           sized == [acc EXCEPT !.total_size =
                       @ + walking_entry.metadata.size_in_bytes]
       IN IF walking_entry.iso_file_path \in DOMAIN iso_paths_already_in_db
          THEN LET file_path ==
                     iso_paths_already_in_db[walking_entry.iso_file_path]
               IN IF \/ file_path.inode = None
                     \/ file_path.date_modified = None
                     \/ needs_update(walking_entry, file_path)
                  THEN segregate_fold_updating_unset(entries, i + 1,
                         iso_paths_already_in_db,
                         [sized EXCEPT !.to_update =
                            @ (+) SetToBag({WalkedEntry(file_path.pub_id,
                                   walking_entry.iso_file_path,
                                   walking_entry.metadata)})])
                  ELSE segregate_fold_updating_unset(entries, i + 1,
                         iso_paths_already_in_db, sized)
          ELSE segregate_fold_updating_unset(entries, i + 1,
                 iso_paths_already_in_db,
                 [sized EXCEPT !.to_create =
                    @ (+) SetToBag({WalkedEntry("new_v4",
                           walking_entry.iso_file_path,
                           walking_entry.metadata)})])

\* mutant: total_size counts the entries that are created or updated only
RECURSIVE segregate_fold_counting_changed(_, _, _, _)
segregate_fold_counting_changed(entries, i, iso_paths_already_in_db, acc) ==
  IF i > Len(entries)
  THEN acc
  ELSE LET walking_entry == entries[i]
           sized == [acc EXCEPT !.total_size =
                       @ + walking_entry.metadata.size_in_bytes]
       IN IF walking_entry.iso_file_path \in DOMAIN iso_paths_already_in_db
          THEN LET file_path ==
                     iso_paths_already_in_db[walking_entry.iso_file_path]
               IN IF /\ IsSome(file_path.inode)
                     /\ IsSome(file_path.date_modified)
                     /\ needs_update(walking_entry, file_path)
                  THEN segregate_fold_counting_changed(entries, i + 1,
                         iso_paths_already_in_db,
                         [sized EXCEPT !.to_update =
                            @ (+) SetToBag({WalkedEntry(file_path.pub_id,
                                   walking_entry.iso_file_path,
                                   walking_entry.metadata)})])
                  ELSE segregate_fold_counting_changed(entries, i + 1,
                         iso_paths_already_in_db, acc)
          ELSE segregate_fold_counting_changed(entries, i + 1,
                 iso_paths_already_in_db,
                 [sized EXCEPT !.to_create =
                    @ (+) SetToBag({WalkedEntry("new_v4",
                           walking_entry.iso_file_path,
                           walking_entry.metadata)})])

\* The fold at walker.rs 438-490 over the drained walking entries;
\* iso_paths_already_in_db maps an isolated path to its record.
RECURSIVE segregate_fold(_, _, _, _)
segregate_fold(entries, i, iso_paths_already_in_db, acc) ==
  IF i > Len(entries)
  THEN acc
  ELSE LET walking_entry == entries[i]
           sized == [acc EXCEPT !.total_size =
                       @ + walking_entry.metadata.size_in_bytes]
       IN IF walking_entry.iso_file_path \in DOMAIN iso_paths_already_in_db
          THEN LET file_path ==
                     iso_paths_already_in_db[walking_entry.iso_file_path]
               IN IF /\ IsSome(file_path.inode)
                     /\ IsSome(file_path.date_modified)
                     /\ needs_update(walking_entry, file_path)
                  THEN segregate_fold(entries, i + 1, iso_paths_already_in_db,
                         [sized EXCEPT !.to_update =
                            @ (+) SetToBag({WalkedEntry(file_path.pub_id,
                                   walking_entry.iso_file_path,
                                   walking_entry.metadata)})])
                  ELSE segregate_fold(entries, i + 1, iso_paths_already_in_db,
                         sized)
          ELSE segregate_fold(entries, i + 1, iso_paths_already_in_db,
                 [sized EXCEPT !.to_create =
                    @ (+) SetToBag({WalkedEntry("new_v4",
                           walking_entry.iso_file_path,
                           walking_entry.metadata)})])

\* The body of segregate_creates_and_updates once the lookup has answered
\* with records (walker.rs 431-490).
segregate_with_records(walking_entries, records) ==
  LET iso_paths_already_in_db ==
        [iso \in {r.iso_file_path : r \in records} |->
           CHOOSE r \in records : r.iso_file_path = iso]
  IN segregate_fold(BagSeq(walking_entries), 1, iso_paths_already_in_db,
       [to_create |-> EmptyBag, to_update |-> EmptyBag, total_size |-> 0])

WalkingParams(walking_entries) ==
  {WhereParam(e.iso_file_path) : e \in BagToSet(walking_entries)}

\* mutant: a failed lookup is taken as "no record found"
segregate_creates_and_updates_tolerant(walking_entries, store, lookup) ==
  IF walking_entries = EmptyBag
  THEN Ok([to_create |-> EmptyBag, to_update |-> EmptyBag, total_size |-> 0])
  ELSE IF lookup # "ok"
       THEN Ok(segregate_with_records(walking_entries, {}))
       ELSE Ok(segregate_with_records(walking_entries,
                 fetch_file_paths(store, WalkingParams(walking_entries))))

\* lookup is the answer of db_proxy.fetch_file_paths: Ok or Err.  The
\* result is Ok((to_create, to_update, total_size)) or Err.
segregate_creates_and_updates(walking_entries, store, lookup) ==
  IF walking_entries = EmptyBag
  THEN Ok([to_create |-> EmptyBag, to_update |-> EmptyBag, total_size |-> 0])
  ELSE IF lookup # "ok"
       THEN Err("fetch_file_paths")
       ELSE Ok(segregate_with_records(walking_entries,
                 fetch_file_paths(store, WalkingParams(walking_entries))))

\* WalkDirTask::new for a queued entry: stage Start, the same root and
\* collaborators, Some(dispatcher)
NewWalkDirTask(walk_entry, rt) ==
  [entry |-> walk_entry, root |-> rt, stage |-> "Start",
   maybe_dispatcher |-> TRUE]

\* mutant: the batch ends at the first WalkDirTask::new that fails
RECURSIVE keep_walking_fold_fail_fast(_, _, _, _, _)
keep_walking_fold_fail_fast(queue, i, rt, new, acc) ==
  IF i > Len(queue)
  THEN acc
  ELSE IF new[queue[i].path] = "ok"
       THEN keep_walking_fold_fail_fast(queue, i + 1, rt, new,
              [acc EXCEPT !.handles =
                 @ (+) SetToBag({NewWalkDirTask(queue[i], rt)})])
       ELSE [acc EXCEPT !.errors =
               @ (+) SetToBag({NonCriticalError("DispatchKeepWalking",
                                                queue[i].path)})]

\* The map / filter_map of keep_walking over the drained queue; new says
\* for each queued path whether WalkDirTask::new succeeds.
RECURSIVE keep_walking_fold(_, _, _, _, _)
keep_walking_fold(queue, i, rt, new, acc) ==
  IF i > Len(queue)
  THEN acc
  ELSE IF new[queue[i].path] = "ok"
       THEN keep_walking_fold(queue, i + 1, rt, new,
              [acc EXCEPT !.handles =
                 @ (+) SetToBag({NewWalkDirTask(queue[i], rt)})])
       ELSE keep_walking_fold(queue, i + 1, rt, new,
              [acc EXCEPT !.errors =
                 @ (+) SetToBag({NonCriticalError("DispatchKeepWalking",
                                                  queue[i].path)})])

\* handles: the tasks given to dispatch_many, whose handles are returned
keep_walking(rt, maybe_to_keep_walking, dispatcher, new, errs) ==
  IF dispatcher /\ IsSome(maybe_to_keep_walking)
  THEN keep_walking_fold(BagSeq(Unwrap(maybe_to_keep_walking)), 1, rt, new,
         [handles |-> EmptyBag, errors |-> errs])
  ELSE [handles |-> EmptyBag, errors |-> errs]

WalkOutput(to_create, to_update, to_remove, accepted_ancestors, errs, directory, total_size, maybe_parent, handles) ==
  [to_create |-> to_create, to_update |-> to_update, to_remove |-> to_remove,
   accepted_ancestors |-> accepted_ancestors, errors |-> errs,
   directory |-> directory, total_size |-> total_size,
   maybe_parent |-> maybe_parent, handles |-> handles]


(***************************************************************************)
(* Spec: one WalkDirTask under the task system.                            *)
(***************************************************************************)
\* the tasks of the model: the task of the walk root, and a task queued by
\* it for the directory d with each flag it may carry
Entries ==
  {ToWalkEntry(root, None, None)}
    \cup {ToWalkEntry(root \o <<"d">>, f, Some(root)) : f \in OptionBool}

StageTags == {Stages[i] : i \in 1..Len(Stages)}

\* Interrupter::try_check_interrupt: no signal, or the kind of the signal
Interruptions == {"None", "Pause", "Cancel"}

\* check_interruption!: returns ExecStatus::Paused or ExecStatus::Canceled
\* from run on a signal, goes on otherwise
check_interruption(intr) ==
  IF intr = "Pause" THEN "paused"
  ELSE IF intr = "Cancel" THEN "canceled"
  ELSE "running"

\* mutant: the Finalize arm checks for an interruption between its awaits
FinalizeInterruptionsChecked == Interruptions

\* the signals honoured between the awaits of the Finalize arm, which has
\* no check_interruption!
FinalizeInterruptions == {"None"}

\* mutant: a resumed run starts over from the Start stage
ResumeStageRestart(saved_stage) == [tag |-> "Start"]

\* mutant: a run resumed in the Walking stage starts a new found_paths
ResumeStageFresh(saved_stage) ==
  IF saved_stage.tag = "Walking"
  THEN [saved_stage EXCEPT !.found_paths = << >>]
  ELSE saved_stage

\* run matches on self.stage as the last run left it
ResumeStage(saved_stage) == saved_stage

NoWorld(task_entry) ==
  [entry |-> task_entry, open |-> None, stream |-> << >>, stat |-> EmptyMap,
   rules |-> EmptyMap, conv |-> EmptyMap, remove |-> None, lookup |-> None,
   new |-> EmptyMap]

TaskInit ==
  /\ entry \in Entries
  /\ maybe_dispatcher \in BOOLEAN
  /\ db \in DbStates(entry.path)
  /\ stage = [tag |-> "Start"]
  /\ errors = EmptyBag
  /\ status = "ready"
  /\ output = None
  /\ fatal = None
  /\ dispatched = EmptyBag
  /\ world = NoWorld(entry)
  /\ faults = 0
  /\ work = [t \in StageTags |-> 0]
  /\ suspended = "never"

Fault(failed) == IF failed THEN 1 ELSE 0

Worked(tag) == [work EXCEPT ![tag] = @ + 1]

\* records a Paused return of the step being taken
NoteSuspension ==
  suspended' =
    IF status' # "paused" THEN suspended
    ELSE IF errors' # EmptyBag THEN "with_errors"
    ELSE IF suspended = "never" THEN "clean"
    ELSE suspended

\* The task system polls the task: the first run, or a resume after Paused.
Run ==
  /\ status \in {"ready", "paused"}
  /\ status' = "running"
  /\ stage' = ResumeStage(stage)
  /\ UNCHANGED <<entry, maybe_dispatcher, db, errors, output, fatal,
                 dispatched, world, faults, work, suspended, rin, rout,
                 treeVars, diffVars, p2pVars>>

\* mutant: a directory that cannot be opened is walked as an empty one
open_directory_swallowing(open) ==
  Ok([tag |-> "Walking", found_paths |-> << >>])

\* The right-hand side of the assignment at walker.rs 256-266: the Walking
\* stage over the opened directory, or the `?` on the mapped error
open_directory(open) ==
  IF open = "ok"
  THEN Ok([tag |-> "Walking", found_paths |-> << >>])
  ELSE Err("FileIO")

\* WalkerStage::Start: fs::read_dir(&path).await
StartStage ==
  /\ status = "running"
  /\ stage.tag = "Start"
  /\ \E open \in {"ok", "err"} :
       /\ open = "err" => faults < MaxFaults
       /\ world' = [world EXCEPT !.open = Some(open)]
       /\ faults' = faults + Fault(open = "err")
       /\ LET r == open_directory(open)
          IN IF r.ok
             THEN /\ stage' = r.val
                  /\ work' = Worked("Start")
                  /\ UNCHANGED <<status, fatal>>
             ELSE /\ status' = "failed"
                  /\ fatal' = Some(r.err)
                  /\ UNCHANGED <<stage, work>>
  /\ UNCHANGED <<entry, maybe_dispatcher, db, errors, output, dispatched,
                 suspended, rin, rout,
                 treeVars, diffVars, p2pVars>>

Yielded == {world.stream[i].val : i \in {j \in 1..Len(world.stream) : world.stream[j].ok}}

\* One iteration of the while let of WalkerStage::Walking:
\* read_dir_stream.next().await is Some(res)
WalkingNext ==
  /\ status = "running"
  /\ stage.tag = "Walking"
  /\ Len(world.stream) < MaxStream
  /\ \E res \in {Ok(n) : n \in Names \ Yielded} \cup {Err("io")} :
       /\ ~res.ok => faults < MaxFaults
       /\ world' = [world EXCEPT !.stream = Append(@, res)]
       /\ faults' = faults + Fault(~res.ok)
       /\ IF res.ok
          THEN /\ stage' = [stage EXCEPT !.found_paths =
                              Append(@, entry.path \o <<res.val>>)]
               /\ errors' = errors
          ELSE /\ stage' = stage
               /\ errors' = errors (+) SetToBag(
                    {NonCriticalError("FailedDirectoryEntry", entry.path)})
  /\ \E intr \in Interruptions : status' = check_interruption(intr)
  /\ UNCHANGED <<entry, maybe_dispatcher, db, output, fatal, dispatched,
                 work, rin, rout,
                 treeVars, diffVars, p2pVars>>
  /\ NoteSuspension

\* read_dir_stream.next().await is None: the stage becomes
\* CollectingMetadata with the found paths
WalkingEnd ==
  /\ status = "running"
  /\ stage.tag = "Walking"
  /\ stage' = [tag |-> "CollectingMetadata", found_paths |-> stage.found_paths]
  /\ work' = Worked("Walking")
  /\ \E intr \in Interruptions : status' = check_interruption(intr)
  /\ UNCHANGED <<entry, maybe_dispatcher, db, errors, output, fatal,
                 dispatched, world, faults, rin, rout,
                 treeVars, diffVars, p2pVars>>
  /\ NoteSuspension

FoundSet(found_paths) == {found_paths[i] : i \in 1..Len(found_paths)}

\* one fs::metadata future of collect_metadata completes
StatCompletes ==
  /\ status = "running"
  /\ stage.tag = "CollectingMetadata"
  /\ \E p \in FoundSet(stage.found_paths) \ DOMAIN world.stat :
     \E res \in {Ok(m) : m \in SpecMetadatas} \cup {Err("io")} :
       /\ ~res.ok => faults < MaxFaults
       /\ world' = [world EXCEPT !.stat = MapInsert(@, p, res)]
       /\ faults' = faults + Fault(~res.ok)
  /\ UNCHANGED <<entry, maybe_dispatcher, db, stage, errors, status, output,
                 fatal, dispatched, work, suspended, rin, rout,
                 treeVars, diffVars, p2pVars>>

\* the join of collect_metadata returns once every future has completed
CollectMetadataJoin ==
  /\ status = "running"
  /\ stage.tag = "CollectingMetadata"
  /\ FoundSet(stage.found_paths) \subseteq DOMAIN world.stat
  /\ LET r == collect_metadata(stage.found_paths, errors, world.stat)
     IN /\ stage' = [tag |-> "CheckingIndexerRules",
                     paths_and_metadatas |-> r.paths_and_metadatas]
        /\ errors' = r.errors
  /\ work' = Worked("CollectingMetadata")
  /\ \E intr \in Interruptions : status' = check_interruption(intr)
  /\ UNCHANGED <<entry, maybe_dispatcher, db, output, fatal, dispatched,
                 world, faults, rin, rout,
                 treeVars, diffVars, p2pVars>>
  /\ NoteSuspension

\* the paths apply_indexer_rules calls the rule engine for
Ruled(paths_and_metadatas) ==
  {p \in DOMAIN paths_and_metadatas : paths_and_metadatas[p].kind # "symlink"}

\* one indexer_ruler.apply_all future of apply_indexer_rules completes
RuleCompletes ==
  /\ status = "running"
  /\ stage.tag = "CheckingIndexerRules"
  /\ \E p \in Ruled(stage.paths_and_metadatas) \ DOMAIN world.rules :
     \E res \in {Ok(m) : m \in SpecRuleMaps} \cup {Err("rule")} :
       /\ ~res.ok => faults < MaxFaults
       /\ world' = [world EXCEPT !.rules = MapInsert(@, p, res)]
       /\ faults' = faults + Fault(~res.ok)
  /\ UNCHANGED <<entry, maybe_dispatcher, db, stage, errors, status, output,
                 fatal, dispatched, work, suspended, rin, rout,
                 treeVars, diffVars, p2pVars>>

\* the join of apply_indexer_rules returns once every future has completed
CheckRulesJoin ==
  /\ status = "running"
  /\ stage.tag = "CheckingIndexerRules"
  /\ Ruled(stage.paths_and_metadatas) \subseteq DOMAIN world.rules
  /\ LET r == apply_indexer_rules(stage.paths_and_metadatas, errors,
                                  world.rules)
     IN /\ stage' = [tag |-> "ProcessingRulesResults",
                     paths_metadatas_and_acceptance |->
                       r.paths_metadatas_and_acceptance]
        /\ errors' = r.errors
  /\ work' = Worked("CheckingIndexerRules")
  /\ \E intr \in Interruptions : status' = check_interruption(intr)
  /\ UNCHANGED <<entry, maybe_dispatcher, db, output, fatal, dispatched,
                 world, faults, rin, rout,
                 treeVars, diffVars, p2pVars>>
  /\ NoteSuspension

\* mutant: the queue of subdirectories exists without a dispatcher too
NewToKeepWalkingAlways(dispatcher) == Some(EmptyBag)

\* maybe_dispatcher.is_some().then(Vec::new)
NewToKeepWalking(dispatcher) == IF dispatcher THEN Some(EmptyBag) ELSE None

\* WalkerStage::ProcessingRulesResults
ProcessRules ==
  /\ status = "running"
  /\ stage.tag = "ProcessingRulesResults"
  /\ LET r == process_rules_results(entry.path, root,
                entry.parent_dir_accepted_by_its_children,
                stage.paths_metadatas_and_acceptance,
                NewToKeepWalking(maybe_dispatcher))
     IN stage' = [tag |-> "GatheringFilePathsToRemove",
                  accepted_paths |-> r.accepted,
                  maybe_to_keep_walking |-> r.maybe_to_keep_walking,
                  accepted_ancestors |-> r.accepted_ancestors]
  /\ work' = Worked("ProcessingRulesResults")
  /\ \E intr \in Interruptions : status' = check_interruption(intr)
  /\ UNCHANGED <<entry, maybe_dispatcher, db, errors, output, fatal,
                 dispatched, world, faults, rin, rout,
                 treeVars, diffVars, p2pVars>>
  /\ NoteSuspension

ConvAnswers == {"ok", "iso_err", "metadata_err"}

Failures(f) == Cardinality({x \in DOMAIN f : f[x] # "ok"})

\* self.entry_iso_file_path, built by WalkDirTask::new
entry_iso_file_path == IsolatedFilePathData(root, world.entry.path, TRUE)

\* WalkerStage::GatheringFilePathsToRemove
GatherFilePathsToRemove ==
  /\ status = "running"
  /\ stage.tag = "GatheringFilePathsToRemove"
  /\ \E conv \in [DOMAIN stage.accepted_paths -> ConvAnswers],
        remove \in {"ok", "err"} :
       /\ faults + Failures(conv) + Fault(remove = "err") <= MaxFaults
       /\ faults' = faults + Failures(conv) + Fault(remove = "err")
       /\ world' = [world EXCEPT !.conv = conv, !.remove = Some(remove)]
       /\ LET r == gather_file_paths_to_remove(stage.accepted_paths,
                     entry_iso_file_path, conv, db, remove, errors)
          IN /\ stage' = [tag |-> "Finalize",
                          walking_entries |-> r.walking_entries,
                          to_remove_entries |-> r.to_remove_entries,
                          maybe_to_keep_walking |-> stage.maybe_to_keep_walking,
                          accepted_ancestors |-> stage.accepted_ancestors,
                          segregated |-> None]
             /\ errors' = r.errors
  /\ work' = Worked("GatheringFilePathsToRemove")
  /\ \E intr \in Interruptions : status' = check_interruption(intr)
  /\ UNCHANGED <<entry, maybe_dispatcher, db, output, fatal, dispatched,
                 rin, rout,
                 treeVars, diffVars, p2pVars>>
  /\ NoteSuspension

\* WalkerStage::Finalize, up to the end of
\* segregate_creates_and_updates(...).await?
FinalizeSegregate ==
  /\ status = "running"
  /\ stage.tag = "Finalize"
  /\ stage.segregated = None
  /\ \E lookup \in {"ok", "err"} :
       /\ stage.walking_entries = EmptyBag => lookup = "ok"
       /\ lookup = "err" => faults < MaxFaults
       /\ faults' = faults + Fault(lookup = "err")
       /\ world' = IF stage.walking_entries = EmptyBag
                   THEN world
                   ELSE [world EXCEPT !.lookup = Some(lookup)]
       /\ LET r == segregate_creates_and_updates(stage.walking_entries, db,
                                                 lookup)
          IN IF r.ok
             THEN /\ stage' = [stage EXCEPT !.walking_entries = EmptyBag,
                                            !.segregated = Some(r.val)]
                  /\ \E intr \in FinalizeInterruptions :
                       status' = check_interruption(intr)
                  /\ fatal' = fatal
             ELSE /\ stage' = stage
                  /\ status' = "failed"
                  /\ fatal' = Some(r.err)
  /\ UNCHANGED <<entry, maybe_dispatcher, db, errors, output, dispatched,
                 work, rin, rout,
                 treeVars, diffVars, p2pVars>>
  /\ NoteSuspension

QueuedPaths(maybe_to_keep_walking) ==
  IF IsSome(maybe_to_keep_walking)
  THEN {e.path : e \in BagToSet(Unwrap(maybe_to_keep_walking))}
  ELSE {}

\* WalkerStage::Finalize from keep_walking(...).await to
\* Ok(ExecStatus::Done(..))
FinalizeKeepWalking ==
  /\ status = "running"
  /\ stage.tag = "Finalize"
  /\ stage.segregated # None
  /\ \E new \in [QueuedPaths(stage.maybe_to_keep_walking) -> {"ok", "err"}] :
       /\ faults + Failures(new) <= MaxFaults
       /\ faults' = faults + Failures(new)
       /\ world' = [world EXCEPT !.new = new]
       /\ LET kw == keep_walking(root, stage.maybe_to_keep_walking,
                                 maybe_dispatcher, new, errors)
              seg == Unwrap(stage.segregated)
          IN /\ dispatched' = dispatched (+) kw.handles
             /\ output' = Some(WalkOutput(seg.to_create, seg.to_update,
                            stage.to_remove_entries, stage.accepted_ancestors,
                            kw.errors, entry.path, seg.total_size,
                            entry.maybe_parent, kw.handles))
  /\ stage' = [stage EXCEPT
                 !.to_remove_entries = {},
                 !.accepted_ancestors = {},
                 !.maybe_to_keep_walking =
                   IF maybe_dispatcher /\ IsSome(@) THEN Some(EmptyBag) ELSE @]
  /\ errors' = EmptyBag
  /\ entry' = [entry EXCEPT !.path = << >>, !.maybe_parent = None]
  /\ status' = "done"
  /\ work' = Worked("Finalize")
  /\ UNCHANGED <<maybe_dispatcher, db, fatal, suspended, rin, rout,
                 treeVars, diffVars, p2pVars>>

\* the variables of the other specifications, where they play no part
RulesIdle == rin = None /\ rout = None

TreeIdle ==
  /\ tree = None
  /\ pool = {}
  /\ outputs = {}
  /\ worker = None
  /\ plan = None
  /\ pass = 0

DiffIdle == din = None /\ dout = None

EventsIdle ==
  /\ connections = << >>
  /\ hook_rx = << >>
  /\ received = << >>
  /\ events = << >>
  /\ forwarder = "none"
  /\ hooked = 0

StreamsIdle ==
  /\ stream_rx = << >>
  /\ arrived = 0
  /\ current = None
  /\ handled = << >>
  /\ receive_loop = "none"

P2PIdle == EventsIdle /\ StreamsIdle

Init ==
  /\ TaskInit
  /\ RulesIdle
  /\ TreeIdle
  /\ DiffIdle
  /\ P2PIdle

Next ==
  \/ Run
  \/ StartStage
  \/ WalkingNext
  \/ WalkingEnd
  \/ StatCompletes
  \/ CollectMetadataJoin
  \/ RuleCompletes
  \/ CheckRulesJoin
  \/ ProcessRules
  \/ GatherFilePathsToRemove
  \/ FinalizeSegregate
  \/ FinalizeKeepWalking

Spec == Init /\ [][Next]_vars


(***************************************************************************)
(* SpecRules: the rule decision on one entry, for every bounded rule       *)
(* result map, inherited flag, entry kind and dispatcher presence.         *)
(***************************************************************************)
\* the directory whose task makes the decision, and the entry decided on
RulesDir == root \o <<"d">>
RulesPath == RulesDir \o <<"a">>

RulesInputs ==
  [acceptance : RuleMaps, flag : OptionBool, is_dir : BOOLEAN,
   dispatcher : BOOLEAN]

RulesInit ==
  /\ rin \in RulesInputs
  /\ rout = None
  /\ entry = ToWalkEntry(RulesDir, rin.flag, Some(root))
  /\ maybe_dispatcher = rin.dispatcher
  /\ db = {}
  /\ stage = [tag |-> "ProcessingRulesResults"]
  /\ errors = EmptyBag
  /\ status = "running"
  /\ output = None
  /\ fatal = None
  /\ dispatched = EmptyBag
  /\ world = NoWorld(entry)
  /\ faults = 0
  /\ work = [t \in StageTags |-> 0]
  /\ suspended = "never"
  /\ TreeIdle
  /\ DiffIdle
  /\ P2PIdle

\* process_rules_results over the one entry, and for a directory the
\* directory rules called as process_rules_results calls them
ApplyRules ==
  /\ rin # None
  /\ rout = None
  /\ LET metadata ==
           Metadata(IF rin.is_dir THEN "dir" ELSE "file", 1, 10, FALSE, 1)
         pmaa == [p \in {RulesPath} |->
                    [metadata |-> metadata, acceptance |-> rin.acceptance]]
     IN rout' = Some(
          [fold |-> process_rules_results(RulesDir, root, rin.flag, pmaa,
                      NewToKeepWalking(rin.dispatcher)),
           dir_rules |->
             IF rin.is_dir
             THEN Some(process_and_maybe_reject_by_directory_rules(
                    RulesPath, RulesDir, rin.acceptance, rin.flag,
                    NewToKeepWalking(rin.dispatcher)))
             ELSE None])
  /\ UNCHANGED <<taskVars, rin, treeVars, diffVars, p2pVars>>

RulesNext == ApplyRules

SpecRules == RulesInit /\ [][RulesNext]_vars

(***************************************************************************)
(* What an execution is compared with.                                     *)
(***************************************************************************)
\* the paths a stream hands to found_paths, in the order it yields them
RECURSIVE StreamPaths(_, _)
StreamPaths(stream, dir) ==
  IF stream = << >> THEN << >>
  ELSE IF Head(stream).ok
       THEN <<dir \o <<Head(stream).val>> >> \o StreamPaths(Tail(stream), dir)
       ELSE StreamPaths(Tail(stream), dir)

\* a bag holding n copies of e
Copies(e, n) == IF n = 0 THEN EmptyBag ELSE [x \in {e} |-> n]

StreamFailures(stream) ==
  Cardinality({i \in 1..Len(stream) : ~stream[i].ok})

AnswerOr(maybe_answer, default) ==
  IF maybe_answer = None THEN default ELSE Unwrap(maybe_answer)

\* The WalkOutput of one run that is never interrupted, over the directory
\* stream and the collaborator answers w: the stages' functions composed.
ReferenceRun(w, dispatcher, store) ==
  LET dir == w.entry.path
      walked ==
        Copies(NonCriticalError("FailedDirectoryEntry", dir),
               StreamFailures(w.stream))
      cm == collect_metadata(StreamPaths(w.stream, dir), walked, w.stat)
      ar == apply_indexer_rules(cm.paths_and_metadatas, cm.errors, w.rules)
      pr == process_rules_results(dir, root,
              w.entry.parent_dir_accepted_by_its_children,
              ar.paths_metadatas_and_acceptance, NewToKeepWalking(dispatcher))
      g == gather_file_paths_to_remove(pr.accepted,
             IsolatedFilePathData(root, dir, TRUE), w.conv, store,
             AnswerOr(w.remove, "ok"), ar.errors)
      seg == segregate_creates_and_updates(g.walking_entries, store,
               AnswerOr(w.lookup, "ok")).val
      kw == keep_walking(root, pr.maybe_to_keep_walking, dispatcher, w.new,
              g.errors)
  IN WalkOutput(seg.to_create, seg.to_update, g.to_remove_entries,
                pr.accepted_ancestors, kw.errors, dir, seg.total_size,
                w.entry.maybe_parent, kw.handles)

\* One error per failing answer of w, tagged by the operation that failed.
ExpectedErrors(w) ==
  Copies(NonCriticalError("FailedDirectoryEntry", w.entry.path),
         StreamFailures(w.stream))
  (+) SetToBag({NonCriticalError("Metadata", p) :
                  p \in {q \in DOMAIN w.stat : ~w.stat[q].ok}})
  (+) SetToBag({NonCriticalError("IndexerRule", p) :
                  p \in {q \in DOMAIN w.rules : ~w.rules[q].ok}})
  (+) SetToBag({NonCriticalError("IsoFilePath", p) :
                  p \in {q \in DOMAIN w.conv : w.conv[q] = "iso_err"}})
  (+) SetToBag({NonCriticalError("FilePathMetadata", p) :
                  p \in {q \in DOMAIN w.conv : w.conv[q] = "metadata_err"}})
  (+) Copies(NonCriticalError("FetchFilePathsToRemove",
               IsolatedFilePathData(root, w.entry.path, TRUE).relative_path),
             Fault(w.remove = Some("err")))
  (+) SetToBag({NonCriticalError("DispatchKeepWalking", p) :
                  p \in {q \in DOMAIN w.new : w.new[q] = "err"}})

(***************************************************************************)
(* SpecTree: the recursive walk.  The task of the walk root runs, every    *)
(* task it dispatches runs in turn, in any order, and the WalkOutputs are  *)
(* gathered as run_test gathers them.  A run of one task is the run of     *)
(* Spec that nothing interrupts and where no collaborator fails; the       *)
(* reconciliation proxy finds no record, as DummyDBProxy.                  *)
(***************************************************************************)
\* the task variables in the specifications that run no task of Spec
TaskIdle ==
  /\ entry = ToWalkEntry(root, None, None)
  /\ maybe_dispatcher = TRUE
  /\ db = {}
  /\ stage = [tag |-> "Start"]
  /\ errors = EmptyBag
  /\ status = "idle"
  /\ output = None
  /\ fatal = None
  /\ dispatched = EmptyBag
  /\ world = NoWorld(entry)
  /\ faults = 0
  /\ work = [t \in StageTags |-> 0]
  /\ suspended = "never"

\* the location: two directories under the walk root, one holding a
\* directory with two files and an empty directory, the other one file
TreeDirs ==
  {root \o <<"a">>, root \o <<"b">>, root \o <<"a", "a">>,
   root \o <<"a", "b">>}

TreeFiles ==
  {root \o <<"a", "a", "a">>, root \o <<"a", "a", "b">>, root \o <<"b", "a">>}

TreePaths == TreeDirs \cup TreeFiles

TreeKind(p) == IF p \in TreeDirs THEN "dir" ELSE "file"

\* the entries fs::read_dir yields for a directory of the walked tree
ChildrenOf(dir) == {p \in tree.paths : ParentOf(p) = dir}

\* how many rule kinds the IndexerRuler of a walk has rules of
MaxTreeRuleKinds == 2

TreeRuleSets == {S \in SUBSET RuleKinds : Cardinality(S) <= MaxTreeRuleKinds}

GlobKinds == {"AcceptFilesByGlob", "RejectFilesByGlob"}

\* IndexerRuler::apply_all in a walk with one rule of every kind of S: one
\* result per kind.  on_dirs and on_files hold the results drawn for the
\* entries; the results of the children rules on a file, which the walker
\* never reads, are fixed.
TreeAcceptance(S, on_dirs, on_files) ==
  [p \in TreePaths |->
     IF p \in TreeDirs
     THEN on_dirs[p]
     ELSE [k \in S |->
             IF k \in GlobKinds
             THEN on_files[p][k]
             ELSE <<k = "RejectIfChildrenDirectoriesArePresent">>]]

\* the task run_test dispatches: WalkDirTask::new(root_path, ..) with
\* Some(dispatcher)
RootTask == NewWalkDirTask(ToWalkEntry(root, None, None), root)

TreeInit ==
  /\ \E S \in TreeRuleSets :
     \E on_dirs \in [TreeDirs -> [S -> {<<TRUE>>, <<FALSE>>}]] :
     \E on_files \in
          [TreeFiles -> [S \cap GlobKinds -> {<<TRUE>>, <<FALSE>>}]] :
       tree = [rules |-> S, acceptance |-> TreeAcceptance(S, on_dirs, on_files),
               paths |-> TreePaths, links |-> {}]
  /\ pool = {RootTask}
  /\ outputs = {}
  /\ worker = None
  /\ plan = None
  /\ pass = 1
  /\ TaskIdle
  /\ RulesIdle
  /\ DiffIdle
  /\ P2PIdle

TreeMetadata(p) == Metadata(TreeKind(p), 1, 10, FALSE, 1)

\* entry p of the tree on disk: a file or directory, or a symbolic link to
\* one (the entries listed below a link to a directory are its target's)
TreeDisk(p) == DiskEntry(p \in tree.links, Some(TreeMetadata(p)))

\* what the collaborators answer to the task of task_entry when its
\* directory holds the entries children
TreeWorldOver(task_entry, children) ==
  LET names == SeqOf({p[Len(p)] : p \in children})
  IN [entry |-> task_entry,
      open |-> Some("ok"),
      stream |-> [i \in 1..Len(names) |-> Ok(names[i])],
      stat |-> [p \in children |-> fs_metadata(TreeDisk(p))],
      rules |-> [p \in children |-> Ok(tree.acceptance[p])],
      conv |-> [p \in children |-> "ok"],
      remove |-> Some("ok"),
      lookup |-> Some("ok"),
      new |-> [p \in children |-> "ok"]]

\* what the collaborators answer to the task of task_entry over the tree
TreeWorld(task_entry) ==
  TreeWorldOver(task_entry, ChildrenOf(task_entry.path))

\* A dispatched task runs to ExecStatus::Done: its WalkOutput is handed to
\* whoever holds its handle, and the tasks it gave to dispatch_many are in
\* the task system.
WalkTask ==
  /\ \E task \in pool :
       LET out == ReferenceRun(TreeWorld(task.entry), task.maybe_dispatcher, db)
       IN /\ outputs' = outputs \cup {[task |-> task, output |-> out]}
          /\ pool' = (pool \ {task}) \cup BagToSet(out.handles)
  /\ UNCHANGED <<taskVars, ruleVars, diffVars, p2pVars, tree, worker, plan, pass>>

TreeNext == WalkTask

SpecTree == TreeInit /\ [][TreeNext]_vars

\* the group of run_test is empty: every task of the walk is done
WalkFinished == pool = {} /\ outputs # {}

\* IsolatedFilePathData back to the path it was built from (run_test:
\* root_path.join(iso_file_path))
JoinRoot(rt, iso_file_path) == rt \o iso_file_path.relative_path

\* actual.extend(walk_result.to_create) over the outputs gathered
TreeAccepted ==
  UNION {{JoinRoot(root, e.iso_file_path) : e \in BagToSet(o.output.to_create)} : o \in outputs}

\* ancestors.extend(walk_result.accepted_ancestors)
TreeAncestors == UNION {o.output.accepted_ancestors : o \in outputs}

\* the entries run_test compares with the expected ones
TreeReported == TreeAccepted \cup TreeAncestors

(***************************************************************************)
(* SpecListing: the recursive walk with no rule configured, over every     *)
(* tree that is a part of the location closed under parents.               *)
(***************************************************************************)
\* the trees walked: with every entry the directory that holds it
Trees ==
  {P \in SUBSET TreePaths :
     \A p \in P : ParentOf(p) = root \/ ParentOf(p) \in P}

\* test_walk_without_rules: IndexerRuler::default(), whose apply_all
\* returns an empty map for every entry
ListingInit ==
  /\ \E P \in Trees :
       tree = [rules |-> {}, acceptance |-> [p \in TreePaths |-> EmptyMap],
               paths |-> P, links |-> {}]
  /\ pool = {RootTask}
  /\ outputs = {}
  /\ worker = None
  /\ plan = None
  /\ pass = 1
  /\ TaskIdle
  /\ RulesIdle
  /\ DiffIdle
  /\ P2PIdle

ListingNext == WalkTask

SpecListing == ListingInit /\ [][ListingNext]_vars

(***************************************************************************)
(* SpecPool: the recursive walk of SpecListing on a task system with one   *)
(* worker.  A task holds the worker from its first poll until it returns   *)
(* ExecStatus::Done; the tasks it gives to dispatch_many wait for a worker.*)
(***************************************************************************)
\* mutant: the task joins the handle of one of its children before it
\* returns
JoinedBeforeDoneAny(handles) ==
  IF handles = EmptyBag THEN {} ELSE {CHOOSE h \in BagToSet(handles) : TRUE}

\* mutant: the task joins the handles of its children before it returns
JoinedBeforeDoneAll(handles) == BagToSet(handles)

\* the handles the Finalize arm awaits between keep_walking and
\* Ok(ExecStatus::Done(..)): none, they go into the WalkOutput
JoinedBeforeDone(handles) == {}

\* the tasks of the walk of a tree with no rule configured: the task of
\* the walk root and the task keep_walking builds for every directory
PoolTasks ==
  {RootTask} \cup
    {NewWalkDirTask(ToWalkEntry(d, None, Some(ParentOf(d))), root) :
       d \in tree.paths \cap TreeDirs}

PoolInit ==
  /\ \E P \in Trees :
       tree = [rules |-> {}, acceptance |-> [p \in TreePaths |-> EmptyMap],
               paths |-> P, links |-> {}]
  /\ pool = {RootTask}
  /\ outputs = {}
  /\ worker = None
  /\ plan = Some([task \in PoolTasks |->
                    ReferenceRun(TreeWorld(task.entry), task.maybe_dispatcher,
                                 {})])
  /\ pass = 1
  /\ TaskIdle
  /\ RulesIdle
  /\ DiffIdle
  /\ P2PIdle

\* the worker is free and polls a dispatched task
StartTask ==
  /\ worker = None
  /\ \E task \in pool :
       /\ worker' = Some([task |-> task, output |-> None])
       /\ pool' = pool \ {task}
  /\ UNCHANGED <<taskVars, ruleVars, diffVars, p2pVars, tree, outputs, plan, pass>>

\* the running task goes through its stages up to the end of keep_walking:
\* its children are in the task system
RunToDispatch ==
  /\ worker # None
  /\ Unwrap(worker).output = None
  /\ LET task == Unwrap(worker).task
         out == Unwrap(plan)[task]
     IN /\ worker' = Some([task |-> task, output |-> Some(out)])
        /\ pool' = pool \cup BagToSet(out.handles)
  /\ UNCHANGED <<taskVars, ruleVars, diffVars, p2pVars, tree, outputs, plan, pass>>

\* the running task returns ExecStatus::Done with its WalkOutput and frees
\* the worker
ReturnDone ==
  /\ worker # None
  /\ Unwrap(worker).output # None
  /\ LET task == Unwrap(worker).task
         out == Unwrap(Unwrap(worker).output)
     IN /\ \A h \in JoinedBeforeDone(out.handles) :
             \E o \in outputs : o.task = h
        /\ outputs' = outputs \cup {[task |-> task, output |-> out]}
  /\ worker' = None
  /\ UNCHANGED <<taskVars, ruleVars, diffVars, p2pVars, tree, pool, plan, pass>>

PoolNext == StartTask \/ RunToDispatch \/ ReturnDone

\* the worker polls a task whenever there is one, and a polled task that
\* is not suspended proceeds
PoolFairness ==
  /\ WF_vars(StartTask)
  /\ WF_vars(RunToDispatch)
  /\ WF_vars(ReturnDone)

SpecPool == PoolInit /\ [][PoolNext]_vars /\ PoolFairness

\* every task of the walk has returned Done
PoolFinished == WalkFinished /\ worker = None

(***************************************************************************)
(* SpecLive: an execution is one WalkDirTask of Spec over the walk root    *)
(* and an empty store, or the recursive walk of SpecPool, under fair       *)
(* scheduling: the task system polls a task that is ready or paused, the   *)
(* operation a running task awaits completes, and the directory stream     *)
(* ends.                                                                   *)
(***************************************************************************)
LiveInit ==
  \/ /\ Init
     /\ entry = ToWalkEntry(root, None, None)
     /\ db = {}
  \/ PoolInit

LiveNext == Next \/ PoolNext

TaskFairness == WF_vars(Next)

SpecLive == LiveInit /\ [][LiveNext]_vars /\ TaskFairness /\ PoolFairness

\* run has returned for the last time: Done, an error, or Canceled
TaskEnded == status \in {"done", "failed", "canceled"}

(***************************************************************************)
(* SpecForest: the recursive walk of the tree of SpecTree under rules and  *)
(* of every tree of SpecListing without rules.                             *)
(***************************************************************************)
ForestInit == TreeInit \/ ListingInit

ForestNext == WalkTask

SpecForest == ForestInit /\ [][ForestNext]_vars

(***************************************************************************)
(* SpecLinks: the recursive walk with no rule configured over every tree   *)
(* of SpecListing, any of whose entries may be symbolic links.             *)
(***************************************************************************)
LinksInit ==
  /\ \E P \in Trees :
     \E L \in SUBSET P :
       tree = [rules |-> {}, acceptance |-> [p \in TreePaths |-> EmptyMap],
               paths |-> P, links |-> L]
  /\ pool = {RootTask}
  /\ outputs = {}
  /\ worker = None
  /\ plan = None
  /\ pass = 1
  /\ TaskIdle
  /\ RulesIdle
  /\ DiffIdle
  /\ P2PIdle

LinksNext == WalkTask

SpecLinks == LinksInit /\ [][LinksNext]_vars

(***************************************************************************)
(* SpecRerun: the location is walked, the entries of every to_create are   *)
(* persisted as they were observed, and the location is walked again.      *)
(***************************************************************************)
\* how many rule kinds the IndexerRuler of a walk that is run twice has
\* rules of
MaxRerunRuleKinds == 1

RerunInit ==
  /\ TreeInit
  /\ Cardinality(tree.rules) <= MaxRerunRuleKinds

\* the record persisted for a created entry: its pub_id and isolated path,
\* and every column of its metadata set to what was observed
SavedRecord(e) ==
  FilePathRecord(e.pub_id, e.iso_file_path, Some(e.metadata.inode),
                 Some(e.metadata.modified_at), Some(e.metadata.hidden),
                 Some(e.metadata.size_in_bytes))

SavedRecords ==
  UNION {{SavedRecord(e) : e \in BagToSet(o.output.to_create)} : o \in outputs}

\* every task of the first walk is done: its to_create entries are saved
\* and the task of the walk root is dispatched again
WalkAgain ==
  /\ pass = 1
  /\ WalkFinished
  /\ db' = db \cup SavedRecords
  /\ pass' = 2
  /\ pool' = {RootTask}
  /\ outputs' = {}
  /\ UNCHANGED <<entry, maybe_dispatcher, stage, errors, status, output,
                 dispatched, world, fatal, faults, work, suspended, ruleVars,
                 diffVars, p2pVars, tree, worker, plan>>

RerunNext == WalkTask \/ WalkAgain

SpecRerun == RerunInit /\ [][RerunNext]_vars

(***************************************************************************)
(* SpecWalk: SpecRules and SpecTree side by side, an execution being one   *)
(* rule decision or one recursive walk.                                    *)
(***************************************************************************)
WalkInit == RulesInit \/ TreeInit

WalkNext == ApplyRules \/ WalkTask

SpecWalk == WalkInit /\ [][WalkNext]_vars

(***************************************************************************)
(* SpecDiff: segregate_creates_and_updates applied to drawn walking        *)
(* entries and persisted records.                                          *)
(***************************************************************************)
DiffPathA == root \o <<"a">>
DiffPathB == root \o <<"b">>

\* what FilePathMetadata::from_path may observe of entry a: inodes, sizes,
\* modification times in milliseconds (two before to two after the stored
\* one) and the hidden flag
DiffInodes == {1, 2}
DiffSizes == {1, 2}
DiffTimes == {8, 9, 10, 11, 12}

\* a WalkingEntry {iso_file_path, metadata}
WalkingEntry(path, is_dir, inode, size_in_bytes, modified_at, hidden) ==
  [iso_file_path |-> IsolatedFilePathData(root, path, is_dir),
   metadata |-> [inode |-> inode, size_in_bytes |-> size_in_bytes,
                 modified_at |-> modified_at, hidden |-> hidden]]

DiffEntriesA ==
  {WalkingEntry(DiffPathA, is_dir, inode, size, modified_at, hidden) :
     is_dir \in BOOLEAN, inode \in DiffInodes, size \in DiffSizes,
     modified_at \in DiffTimes, hidden \in BOOLEAN}

\* the persisted record of path a, if there is one: a file or a directory,
\* every optional column set or unset
DiffRecordsA ==
  {FilePathRecord("pa", IsolatedFilePathData(root, DiffPathA, is_dir),
                  inode, date_modified, hidden, size) :
     is_dir \in BOOLEAN, inode \in {None, Some(1)},
     date_modified \in {None, Some(10)}, hidden \in OptionBool,
     size \in {None, Some(1)}}

\* a second walking entry, file b, and the record of it: as observed, or
\* with an older modification time
DiffEntryB == WalkingEntry(DiffPathB, FALSE, 1, 1, 10, FALSE)

DiffRecordsB ==
  {FilePathRecord("pb", IsolatedFilePathData(root, DiffPathB, FALSE),
                  Some(1), Some(date_modified), Some(FALSE), Some(1)) :
     date_modified \in {5, 10}}

DiffInit ==
  /\ \E a \in {{e} : e \in DiffEntriesA} \cup {{}} :
     \E b \in SUBSET {DiffEntryB} :
     \E ra \in {{r} : r \in DiffRecordsA} \cup {{}} :
     \E rb \in {{r} : r \in DiffRecordsB} \cup {{}} :
       din = Some([walking_entries |-> SetToBag(a \cup b),
                   store |-> ra \cup rb])
  /\ dout = None
  /\ TaskIdle
  /\ RulesIdle
  /\ TreeIdle
  /\ P2PIdle

\* segregate_creates_and_updates(&mut walking_entries, db_proxy).await
ApplyDiff ==
  /\ din # None
  /\ dout = None
  /\ \E lookup \in {"ok", "err"} :
       dout' = Some(segregate_creates_and_updates(
                      Unwrap(din).walking_entries, Unwrap(din).store, lookup))
  /\ UNCHANGED <<taskVars, ruleVars, treeVars, p2pVars, din>>

DiffNext == ApplyDiff

SpecDiff == DiffInit /\ [][DiffNext]_vars

(***************************************************************************)
(* SpecEvents: the task spawned by P2PEvents::spawn (p2p_events.rs), which *)
(* receives the HookEvents of the P2P system and sends P2PEvents on a      *)
(* broadcast channel.  The P2P system is the environment: peers open and   *)
(* close connections with its listeners, are discovered and expire.        *)
(***************************************************************************)
\* most HookEvents the P2P system raises in one execution
MaxHookEvents == 5

\* the capacity of the hook's channel, mpsc::channel(15), scaled down
HookCapacity == 2

Peers == {"p1", "p2"}

\* the listeners a connection can be made with
Listeners == {"quic", "relay"}

\* a HookEvent: its variant, the peer (or identity) and listener it names
\* where it names one, and its flag: first_connection, last_connection, or
\* for PeerAvailable whether PeerMetadata::from_hashmap accepts the
\* metadata of the peer
HookEvent(variant, peer, listener, flag) ==
  [variant |-> variant, peer |-> peer, listener |-> listener, flag |-> flag]

\* a P2PEvent {type, identity}
P2PEvent(type, identity) == [type |-> type, identity |-> identity]

\* mutant: every connection and every disconnection is forwarded
hook_match_unguarded(event) ==
  IF event.variant = "PeerAvailable"
  THEN IF event.flag
       THEN [does |-> "send", event |-> P2PEvent("DiscoveredPeer", event.peer)]
       ELSE [does |-> "panic", event |-> None]
  ELSE IF event.variant = "PeerUnavailable"
  THEN [does |-> "send", event |-> P2PEvent("ExpiredPeer", event.peer)]
  ELSE IF event.variant = "PeerConnectedWith"
  THEN [does |-> "send", event |-> P2PEvent("ConnectedPeer", event.peer)]
  ELSE IF event.variant = "PeerDisconnectedWith"
  THEN [does |-> "send", event |-> P2PEvent("DisconnectedPeer", event.peer)]
  ELSE IF event.variant = "Shutdown"
  THEN [does |-> "break", event |-> None]
  ELSE [does |-> "continue", event |-> None]

\* The match of the loop body (p2p_events.rs 61-83): the P2PEvent to send,
\* or break, or continue, or the panic of the unwrap at 66.
hook_match(event) ==
  IF event.variant = "PeerAvailable"
  THEN IF event.flag
       THEN [does |-> "send", event |-> P2PEvent("DiscoveredPeer", event.peer)]
       ELSE [does |-> "panic", event |-> None]
  ELSE IF event.variant = "PeerUnavailable"
  THEN [does |-> "send", event |-> P2PEvent("ExpiredPeer", event.peer)]
  ELSE IF event.variant = "PeerConnectedWith" /\ event.flag
  THEN [does |-> "send", event |-> P2PEvent("ConnectedPeer", event.peer)]
  ELSE IF event.variant = "PeerDisconnectedWith" /\ event.flag
  THEN [does |-> "send", event |-> P2PEvent("DisconnectedPeer", event.peer)]
  ELSE IF event.variant = "Shutdown"
  THEN [does |-> "break", event |-> None]
  ELSE [does |-> "continue", event |-> None]

\* P2PManager::new: P2P::new, then P2PEvents::spawn registers the hook and
\* spawns the task, before any listener is enabled
EventsInit ==
  /\ connections = [p \in Peers |-> {}]
  /\ hook_rx = << >>
  /\ received = << >>
  /\ events = << >>
  /\ forwarder = "running"
  /\ hooked = 0
  /\ StreamsIdle
  /\ TaskIdle
  /\ RulesIdle
  /\ TreeIdle
  /\ DiffIdle

\* the hook is sent a HookEvent: it waits in the channel unless the
\* receiver is gone
HookSend(event) ==
  /\ hooked < MaxHookEvents
  /\ hooked' = hooked + 1
  /\ IF forwarder = "running"
     THEN /\ Len(hook_rx) < HookCapacity
          /\ hook_rx' = Append(hook_rx, event)
     ELSE hook_rx' = hook_rx
  /\ UNCHANGED <<received, events, forwarder>>

\* a connection of peer p is established with listener l
PeerConnects ==
  /\ \E p \in Peers, l \in Listeners :
       /\ l \notin connections[p]
       /\ connections' = [connections EXCEPT ![p] = @ \cup {l}]
       /\ HookSend(HookEvent("PeerConnectedWith", p, l,
                             connections[p] = {}))
  /\ UNCHANGED <<taskVars, ruleVars, treeVars, diffVars, streamVars>>

\* the connection of peer p with listener l is closed
PeerDisconnects ==
  /\ \E p \in Peers : \E l \in connections[p] :
       /\ connections' = [connections EXCEPT ![p] = @ \ {l}]
       /\ HookSend(HookEvent("PeerDisconnectedWith", p, l,
                             connections[p] = {l}))
  /\ UNCHANGED <<taskVars, ruleVars, treeVars, diffVars, streamVars>>

\* peer p becomes available, with metadata PeerMetadata::from_hashmap
\* accepts or not, or unavailable, or is discovered or expired by one
\* service (HookEvents the match leaves to its last arm)
PeerAnnounced ==
  /\ \E p \in Peers :
       \/ \E well_formed \in BOOLEAN :
            HookSend(HookEvent("PeerAvailable", p, "", well_formed))
       \/ HookSend(HookEvent("PeerUnavailable", p, "", FALSE))
       \/ HookSend(HookEvent("PeerExpiredBy", p, "", FALSE))
  /\ UNCHANGED <<connections, taskVars, ruleVars, treeVars, diffVars,
                 streamVars>>

\* P2P::shutdown
HookShutdown ==
  /\ HookSend(HookEvent("Shutdown", "", "", FALSE))
  /\ UNCHANGED <<connections, taskVars, ruleVars, treeVars, diffVars,
                 streamVars>>

\* one turn of `while let Some(event) = rx.recv().await`
Forward ==
  /\ forwarder = "running"
  /\ hook_rx # << >>
  /\ received' = Append(received, Head(hook_rx))
  /\ LET m == hook_match(Head(hook_rx))
     IN /\ events' = IF m.does = "send" THEN Append(events, m.event)
                     ELSE events
        /\ forwarder' = IF m.does = "break" THEN "finished"
                        ELSE IF m.does = "panic" THEN "panicked"
                        ELSE forwarder
        /\ hook_rx' = IF m.does \in {"break", "panic"} THEN << >>
                      ELSE Tail(hook_rx)
  /\ UNCHANGED <<connections, hooked, taskVars, ruleVars, treeVars, diffVars,
                 streamVars>>

EventsNext ==
  \/ PeerConnects
  \/ PeerDisconnects
  \/ PeerAnnounced
  \/ HookShutdown
  \/ Forward

SpecEvents == EventsInit /\ [][EventsNext]_vars

(***************************************************************************)
(* SpecStreams: the receive loop of the P2P manager (start,                *)
(* p2p_manager.rs), which takes the incoming UnicastStreams from a channel *)
(* and runs the handler its header names.  A stream is its number in       *)
(* arrival order.                                                          *)
(***************************************************************************)
\* most streams that arrive in one execution
MaxIncoming == 3

\* the capacity of the streams' channel, mpsc::channel(25), scaled down
StreamCapacity == 2

\* the variants of Header
Headers == {"Ping", "Spacedrop", "Sync", "File"}

\* how the arm of a header can end: the ping receiver returns nothing; the
\* Spacedrop and File receivers return Ok or Err; the Sync arm fails in
\* Tunnel::responder, in SyncMessage::from_stream, in get_library or in
\* the responder
HandlerResults(header) ==
  IF header = "Ping" THEN {"returned"}
  ELSE IF header = "Sync"
  THEN {"ok", "tunnel_err", "message_err", "no_library", "responder_err"}
  ELSE {"ok", "err"}

\* mutant: a failed handler is left behind and the loop goes on
start_match_going_on(header, result) == "continue"

\* The match of the loop body (p2p_manager.rs 195-225): every arm but
\* Ping ends in `?`.
start_match(header, result) ==
  IF header = "Ping" THEN "continue"
  ELSE IF result = "ok" THEN "continue"
  ELSE "return_err"

\* tokio::spawn(start(this, node, rx))
StreamsInit ==
  /\ stream_rx = << >>
  /\ arrived = 0
  /\ current = None
  /\ handled = << >>
  /\ receive_loop = "running"
  /\ EventsIdle
  /\ TaskIdle
  /\ RulesIdle
  /\ TreeIdle
  /\ DiffIdle

\* the P2P system sends an incoming stream: it waits in the channel unless
\* the receiver is gone
StreamArrives ==
  /\ arrived < MaxIncoming
  /\ arrived' = arrived + 1
  /\ IF receive_loop = "running"
     THEN /\ Len(stream_rx) < StreamCapacity
          /\ stream_rx' = Append(stream_rx, arrived + 1)
     ELSE stream_rx' = stream_rx
  /\ UNCHANGED <<current, handled, receive_loop, taskVars, ruleVars,
                 treeVars, diffVars, eventsVars>>

\* rx.recv().await returns Some(stream)
RecvStream ==
  /\ receive_loop = "running"
  /\ current = None
  /\ stream_rx # << >>
  /\ current' = Some([id |-> Head(stream_rx), header |-> None])
  /\ stream_rx' = Tail(stream_rx)
  /\ UNCHANGED <<arrived, handled, receive_loop, taskVars, ruleVars,
                 treeVars, diffVars, eventsVars>>

\* Header::from_stream(&mut stream).await ... ?
ReadHeader ==
  /\ current # None
  /\ Unwrap(current).header = None
  /\ \/ /\ handled' = Append(handled, [id |-> Unwrap(current).id,
                                        header |-> "err",
                                        result |-> "none"])
        /\ receive_loop' = "err"
        /\ current' = None
        /\ stream_rx' = << >>
     \/ /\ \E header \in Headers :
             current' = Some([id |-> Unwrap(current).id,
                              header |-> Some(header)])
        /\ UNCHANGED <<handled, receive_loop, stream_rx>>
  /\ UNCHANGED <<arrived, taskVars, ruleVars, treeVars, diffVars,
                 eventsVars>>

\* the arm of `match header`
RunHandler ==
  /\ current # None
  /\ Unwrap(current).header # None
  /\ LET header == Unwrap(Unwrap(current).header)
     IN \E result \in HandlerResults(header) :
          /\ handled' = Append(handled, [id |-> Unwrap(current).id,
                                         header |-> header,
                                         result |-> result])
          /\ current' = None
          /\ IF start_match(header, result) = "return_err"
             THEN receive_loop' = "err" /\ stream_rx' = << >>
             ELSE UNCHANGED <<receive_loop, stream_rx>>
  /\ UNCHANGED <<arrived, taskVars, ruleVars, treeVars, diffVars,
                 eventsVars>>

\* rx.recv().await returns None: every sender is gone and no stream waits
ChannelClosed ==
  /\ receive_loop = "running"
  /\ current = None
  /\ stream_rx = << >>
  /\ receive_loop' = "ok"
  /\ UNCHANGED <<stream_rx, arrived, current, handled, taskVars, ruleVars,
                 treeVars, diffVars, eventsVars>>

StreamsNext ==
  \/ StreamArrives
  \/ RecvStream
  \/ ReadHeader
  \/ RunHandler
  \/ ChannelClosed

SpecStreams == StreamsInit /\ [][StreamsNext]_vars

(***************************************************************************)
(* Claims.                                                                 *)
(***************************************************************************)

\* C1: across suspensions and resumes the stage of a task stays or moves to
\* the next stage of Start, Walking, CollectingMetadata,
\* CheckingIndexerRules, ProcessingRulesResults, GatheringFilePathsToRemove,
\* Finalize, never back and never over a stage, and a WalkOutput appears
\* only in a step taken in Finalize, which ends the run with Done.
C1_StageOrder ==
  [][/\ \/ stage'.tag = stage.tag
        \/ StageIndex(stage'.tag) = StageIndex(stage.tag) + 1
     /\ output' # output =>
          /\ stage.tag = "Finalize"
          /\ output = None
          /\ status' = "done"]_vars

\* a task that was suspended, resumed and has returned its WalkOutput
C1_Witness ==
  /\ status = "done"
  /\ IsSome(output)
  /\ suspended # "never"
  /\ \A t \in StageTags : work[t] = 1

\* C2: whatever the interruptions, no stage's work is done twice, a task in
\* Walking holds exactly the paths its stream has yielded so far, and the
\* WalkOutput of a task that reaches Done is the one of an uninterrupted
\* run over the same stream and answers.
C2_ResumeEquivalence ==
  /\ \A t \in StageTags : work[t] <= 1
  /\ stage.tag = "Walking" =>
       stage.found_paths = StreamPaths(world.stream, world.entry.path)
  /\ status = "done" =>
       output = Some(ReferenceRun(world, maybe_dispatcher, db))

\* a task suspended at least once that finished with entries to create
C2_Witness ==
  /\ status = "done"
  /\ suspended # "never"
  /\ Len(world.stream) = MaxStream
  /\ Unwrap(output).to_create # EmptyBag

\* C3 (as stated): run never returns a suspended status while the stage is
\* Finalize.
C3_Original ==
  stage.tag = "Finalize" => status \notin {"paused", "canceled"}

\* C3 (amended): a run that returns Paused or Canceled with the stage
\* Finalize has done none of the work of Finalize: no lookup was made, no
\* segregation result exists, nothing was dispatched.  Once the Finalize
\* arm has begun nothing interrupts it.
C3_FinalizeAtomic ==
  (stage.tag = "Finalize" /\ status \in {"paused", "canceled"}) =>
    /\ stage.segregated = None
    /\ world.lookup = None
    /\ dispatched = EmptyBag
    /\ work["Finalize"] = 0

\* a task with entries to look up, suspended with the stage Finalize
C3_Witness ==
  /\ stage.tag = "Finalize"
  /\ status = "paused"
  /\ stage.walking_entries # EmptyBag
  /\ QueuedPaths(stage.maybe_to_keep_walking) # {}

\* C4: when fetch_file_paths fails the task has failed with that error,
\* there is no WalkOutput and nothing was dispatched.
C4_LookupFailureFatal ==
  world.lookup = Some("err") =>
    /\ status = "failed"
    /\ fatal = Some("fetch_file_paths")
    /\ output = None
    /\ dispatched = EmptyBag

\* the lookup failed in a task that has subdirectories queued
C4_Witness ==
  /\ world.lookup = Some("err")
  /\ stage.tag = "Finalize"
  /\ QueuedPaths(stage.maybe_to_keep_walking) # {}

\* C5: when opening the directory fails run has returned a fatal error, the
\* stage is still Start, no stage work was done, no error was recorded, and
\* there is no WalkOutput and no dispatch.
C5_OpenFailureFatal ==
  world.open = Some("err") =>
    /\ status = "failed"
    /\ fatal = Some("FileIO")
    /\ stage.tag = "Start"
    /\ \A t \in StageTags : work[t] = 0
    /\ errors = EmptyBag
    /\ output = None
    /\ dispatched = EmptyBag

\* the directory could not be opened
C5_Witness ==
  /\ world.open = Some("err")
  /\ status = "failed"

\* C6: when fetch_file_paths_to_remove fails the task fails only if the
\* lookup of Finalize fails, and its WalkOutput has an empty to_remove, the
\* to_create and to_update of the run in which the query succeeds, and
\* exactly one error for the failed query.
C6_RemoveFailureTolerated ==
  world.remove = Some("err") =>
    /\ status = "failed" => world.lookup = Some("err")
    /\ status = "done" =>
         LET out == Unwrap(output)
             succeeded ==
               ReferenceRun([world EXCEPT !.remove = Some("ok")],
                            maybe_dispatcher, db)
         IN /\ out.to_remove = {}
            /\ out.to_create = succeeded.to_create
            /\ out.to_update = succeeded.to_update
            /\ CopiesIn(NonCriticalError("FetchFilePathsToRemove",
                          entry_iso_file_path.relative_path), out.errors) = 1

\* the query failed where it would have returned a stale record, and the
\* task finished with an entry to create
C6_Witness ==
  /\ world.remove = Some("err")
  /\ status = "done"
  /\ Unwrap(output).to_create # EmptyBag
  /\ fetch_file_paths_to_remove(db, entry_iso_file_path, {}) # {}

\* C7: the errors of the WalkOutput of a task that reaches Done are exactly
\* one per failed answer of every stage, and a task fails only on a failed
\* open or a failed lookup.
C7_ErrorsAllReported ==
  /\ status = "done" => Unwrap(output).errors = ExpectedErrors(world)
  /\ status = "failed" =>
       world.open = Some("err") \/ world.lookup = Some("err")

\* a task suspended with errors recorded that finished with two errors
C7_Witness ==
  /\ status = "done"
  /\ suspended = "with_errors"
  /\ BagCardinality(Unwrap(output).errors) = MaxFaults

\* C8: the join of collect_metadata and the join of apply_indexer_rules
\* return only when every element has answered; what goes to the next
\* stage is exactly the elements that succeeded, with their values, and
\* errors gains exactly one entry per failed element.
C8_FanOutJoinsAll ==
  [][/\ (stage.tag = "CollectingMetadata"
           /\ stage'.tag = "CheckingIndexerRules") =>
          LET found == FoundSet(stage.found_paths)
              succeeded ==
                {p \in found \cap DOMAIN world.stat : world.stat[p].ok}
          IN /\ found \subseteq DOMAIN world.stat
             /\ DOMAIN stage'.paths_and_metadatas = succeeded
             /\ \A p \in succeeded :
                  stage'.paths_and_metadatas[p] = world.stat[p].val
             /\ errors' = errors (+) SetToBag(
                  {NonCriticalError("Metadata", p) : p \in found \ succeeded})
     /\ (stage.tag = "CheckingIndexerRules"
           /\ stage'.tag = "ProcessingRulesResults") =>
          LET ruled == {p \in DOMAIN stage.paths_and_metadatas :
                          stage.paths_and_metadatas[p].kind # "symlink"}
              succeeded ==
                {p \in ruled \cap DOMAIN world.rules : world.rules[p].ok}
          IN /\ ruled \subseteq DOMAIN world.rules
             /\ DOMAIN stage'.paths_metadatas_and_acceptance = succeeded
             /\ \A p \in succeeded :
                  stage'.paths_metadatas_and_acceptance[p] =
                    [metadata |-> stage.paths_and_metadatas[p],
                     acceptance |-> world.rules[p].val]
             /\ errors' = errors (+) SetToBag(
                  {NonCriticalError("IndexerRule", p) :
                     p \in ruled \ succeeded})]_vars

\* both joins have returned for two elements, one whose stat failed and one
\* that went through both
C8_Witness ==
  /\ stage.tag = "ProcessingRulesResults"
  /\ \E p \in DOMAIN world.stat : ~world.stat[p].ok
  /\ DOMAIN stage.paths_metadatas_and_acceptance # {}

RejectChildrenResults ==
  IF "RejectIfChildrenDirectoriesArePresent" \in DOMAIN rin.acceptance
  THEN rin.acceptance["RejectIfChildrenDirectoriesArePresent"]
  ELSE << >>

AcceptChildrenResults ==
  IF "AcceptIfChildrenDirectoriesArePresent" \in DOMAIN rin.acceptance
  THEN rin.acceptance["AcceptIfChildrenDirectoriesArePresent"]
  ELSE << >>

\* the directory rules returned true, and the fold neither accepted nor
\* queued the entry
HardRejected ==
  /\ Unwrap(Unwrap(rout).dir_rules).rejected
  /\ Unwrap(Unwrap(rout).dir_rules).maybe_to_keep_walking
       = NewToKeepWalking(rin.dispatcher)
  /\ RulesPath \notin DOMAIN Unwrap(rout).fold.accepted
  /\ QueuedPaths(Unwrap(rout).fold.maybe_to_keep_walking) = {}

\* C9 (as stated): a directory with a true
\* RejectIfChildrenDirectoriesArePresent result is hard-rejected.
C9_Original ==
  (IsSome(rout) /\ rin.is_dir /\ AnyTrue(RejectChildrenResults)) =>
    HardRejected

\* C9 (amended): a directory with a false
\* RejectIfChildrenDirectoriesArePresent result is hard-rejected: the
\* directory rules return true, and it is neither accepted nor queued.
C9_HardReject ==
  (IsSome(rout) /\ rin.is_dir /\ AnyFalse(RejectChildrenResults)) =>
    HardRejected

\* a directory with a false and a true result that nothing else rejects,
\* under a dispatcher
C9_Witness ==
  /\ IsSome(rout)
  /\ rin.is_dir
  /\ rin.dispatcher
  /\ rin.flag = Some(TRUE)
  /\ RejectChildrenResults = <<TRUE, FALSE>>
  /\ DOMAIN rin.acceptance = {"RejectIfChildrenDirectoriesArePresent"}

\* C10 (as stated): with AcceptIfChildrenDirectoriesArePresent results, the
\* flag of a directory that is not hard-rejected is Accepted on any true
\* result and Rejected otherwise, whatever flag it inherited.
C10_Original ==
  (/\ IsSome(rout)
   /\ rin.is_dir
   /\ AcceptChildrenResults # << >>
   /\ ~Unwrap(Unwrap(rout).dir_rules).rejected) =>
    Unwrap(Unwrap(rout).dir_rules).accept_by_children_dir =
      IF AnyTrue(AcceptChildrenResults) THEN Some(TRUE) ELSE Some(FALSE)

\* C10 (amended): the flag is Accepted on any true result; with no true
\* result it is Rejected when the inherited flag is Unknown and the
\* inherited flag otherwise.
C10_ChildrenAcceptance ==
  (/\ IsSome(rout)
   /\ rin.is_dir
   /\ AcceptChildrenResults # << >>
   /\ ~Unwrap(Unwrap(rout).dir_rules).rejected) =>
    Unwrap(Unwrap(rout).dir_rules).accept_by_children_dir =
      IF AnyTrue(AcceptChildrenResults) THEN Some(TRUE)
      ELSE IF rin.flag = None THEN Some(FALSE)
      ELSE rin.flag

\* a directory that inherited Accepted and has no true result
C10_Witness ==
  /\ IsSome(rout)
  /\ rin.is_dir
  /\ rin.flag = Some(TRUE)
  /\ AcceptChildrenResults = <<FALSE, FALSE>>
  /\ ~Unwrap(Unwrap(rout).dir_rules).rejected

\* p lies under d, at any depth
StrictlyBelow(d, p) == Len(p) > Len(d) /\ SubSeq(p, 1, Len(d)) = d

\* the flag inherited by the task that evaluates entry p, once it is done
InheritedBy(p) ==
  {o.task.entry.parent_dir_accepted_by_its_children :
     o \in {x \in outputs : x.task.entry.path = ParentOf(p)}}

\* one of the entry's own AcceptIfChildrenDirectoriesArePresent results is
\* true
OwnTrue(p) ==
  /\ "AcceptIfChildrenDirectoriesArePresent" \in tree.rules
  /\ AnyTrue(tree.acceptance[p]["AcceptIfChildrenDirectoriesArePresent"])

\* the entry is dropped with everything under it: a false RejectFilesByGlob
\* result, or a directory with a false
\* RejectIfChildrenDirectoriesArePresent result
Dropped(p) ==
  \/ rejected_by_reject_glob(tree.acceptance[p])
  \/ p \in TreeDirs /\ rejected_by_children_directories(tree.acceptance[p])

\* the entry is rejected by its own glob or reject results
IndependentlyRejected(p) ==
  Dropped(p) \/ rejected_by_accept_glob(tree.acceptance[p])

\* every entry under d, not rejected itself and under no dropped directory
\* on the way down from d, is accepted
SubtreeAccepted(d) ==
  \A p \in TreePaths :
    (/\ StrictlyBelow(d, p)
     /\ ~IndependentlyRejected(p)
     /\ \A q \in TreeDirs :
          (StrictlyBelow(d, q) /\ StrictlyBelow(q, p)) => ~Dropped(q)) =>
      p \in TreeAccepted

\* C11 (as stated): under an AcceptIfChildrenDirectoriesArePresent rule, once
\* a directory is accepted with a true result of its own, every entry below
\* it that is not independently rejected is accepted by the walk, and a
\* sibling directory with no true result is not in the accepted set.
C11_Original ==
  WalkFinished =>
    \A d \in TreeDirs :
      (OwnTrue(d) /\ d \in TreeAccepted) =>
        /\ SubtreeAccepted(d)
        /\ \A sib \in TreeDirs \ {d} :
             (ParentOf(sib) = ParentOf(d) /\ ~OwnTrue(sib)) =>
               sib \notin TreeAccepted

\* C11 (amended): under an AcceptIfChildrenDirectoriesArePresent rule, once
\* a directory is accepted with a true result of its own, every entry below
\* it that is not independently rejected is accepted by the walk; a sibling
\* directory with no true result is not in the accepted set when the task
\* evaluating the two has not inherited Accepted, and is accepted like any
\* other entry when it has.
C11_SubtreeAccepted ==
  WalkFinished =>
    \A d \in TreeDirs :
      (OwnTrue(d) /\ d \in TreeAccepted) =>
        /\ SubtreeAccepted(d)
        /\ \A sib \in TreeDirs \ {d} :
             (ParentOf(sib) = ParentOf(d) /\ ~OwnTrue(sib)) =>
               IF InheritedBy(sib) = {Some(TRUE)}
               THEN ~IndependentlyRejected(sib) => sib \in TreeAccepted
               ELSE sib \notin TreeAccepted

\* the walk of test_git_repos: directory a has a true result and directory
\* b has none; a, the directory and the files under it are accepted, b and
\* the file under it are not
C11_Witness ==
  /\ WalkFinished
  /\ tree.rules = {"AcceptIfChildrenDirectoriesArePresent"}
  /\ OwnTrue(root \o <<"a">>)
  /\ \A p \in TreeDirs \ {root \o <<"a">>} : ~OwnTrue(p)
  /\ TreeAccepted =
       {p \in TreePaths : p = root \o <<"a">> \/ StrictlyBelow(root \o <<"a">>, p)}

\* the flag an entry is left with by its evaluation in a task that
\* inherited flag f: f itself, unless the entry is a directory with
\* AcceptIfChildrenDirectoriesArePresent results of its own
EffectiveFlag(p, f) ==
  IF p \in TreeDirs /\ "AcceptIfChildrenDirectoriesArePresent" \in tree.rules
  THEN IF OwnTrue(p) THEN Some(TRUE)
       ELSE IF f = None THEN Some(FALSE)
       ELSE f
  ELSE f

\* the paths of the to_create entries of one WalkOutput
AcceptedIn(o) ==
  {JoinRoot(root, e.iso_file_path) : e \in BagToSet(o.output.to_create)}

\* C12: every queued subdirectory carries the flag the task inherited,
\* unless the subdirectory has AcceptIfChildrenDirectoriesArePresent results
\* of its own; a task other than the root task is the task made from an entry
\* its parent queued, with the carried flag as its inherited flag; and every
\* entry of a task is decided from the task's inherited flag and the entry's
\* own results alone, whatever its siblings left.
C12_FlagCarried ==
  /\ \A o \in outputs :
       LET f == o.task.entry.parent_dir_accepted_by_its_children
       IN /\ \A h \in BagToSet(o.output.handles) :
               /\ h.entry.parent_dir_accepted_by_its_children
                    = EffectiveFlag(h.entry.path, f)
               /\ "AcceptIfChildrenDirectoriesArePresent" \notin tree.rules
                    => h.entry.parent_dir_accepted_by_its_children = f
          /\ \A p \in ChildrenOf(o.task.entry.path) :
               p \in AcceptedIn(o) <=>
                 /\ ~IndependentlyRejected(p)
                 /\ EffectiveFlag(p, f) # Some(FALSE)
  /\ \A t \in (pool \cup {o.task : o \in outputs}) \ {RootTask} :
       \E o \in outputs :
         /\ t \in BagToSet(o.output.handles)
         /\ t.entry.maybe_parent = Some(o.task.entry.path)

\* the task of directory a inherited Rejected and is done: its directory a/a
\* has a true result and is queued with Accepted, the sibling a/b has none
\* and is queued with Rejected, and the task of a/a has accepted the files
C12_Witness ==
  /\ tree.rules = {"AcceptIfChildrenDirectoriesArePresent"}
  /\ \E o \in outputs :
       /\ o.task.entry = ToWalkEntry(root \o <<"a">>, Some(FALSE), Some(root))
       /\ BagToSet(o.output.handles) =
            {NewWalkDirTask(ToWalkEntry(root \o <<"a", "a">>, Some(TRUE),
                                        Some(root \o <<"a">>)), root),
             NewWalkDirTask(ToWalkEntry(root \o <<"a", "b">>, Some(FALSE),
                                        Some(root \o <<"a">>)), root)}
  /\ \E o \in outputs :
       /\ o.task.entry.path = root \o <<"a", "a">>
       /\ AcceptedIn(o) = ChildrenOf(root \o <<"a", "a">>)

RejectGlobResults ==
  IF "RejectFilesByGlob" \in DOMAIN rin.acceptance
  THEN rin.acceptance["RejectFilesByGlob"]
  ELSE << >>

AcceptGlobResults ==
  IF "AcceptFilesByGlob" \in DOMAIN rin.acceptance
  THEN rin.acceptance["AcceptFilesByGlob"]
  ELSE << >>

\* C13: an entry with a false RejectFilesByGlob result is rejected whatever
\* its other results and the inherited flag are: it is not in the accepted
\* set, it registers no ancestor, and a directory is not queued.
C13_RejectGlobOutranks ==
  (IsSome(rout) /\ AnyFalse(RejectGlobResults)) =>
    /\ Unwrap(rout).fold.accepted = EmptyMap
    /\ Unwrap(rout).fold.accepted_ancestors = {}
    /\ Unwrap(rout).fold.maybe_to_keep_walking
         = NewToKeepWalking(rin.dispatcher)

\* a directory with a false reject-glob result beside a true one, whose
\* accept-glob and AcceptIfChildrenDirectoriesArePresent results are true
\* and which inherited Accepted, under a dispatcher
C13_Witness ==
  /\ IsSome(rout)
  /\ rin.is_dir
  /\ rin.dispatcher
  /\ rin.flag = Some(TRUE)
  /\ RejectGlobResults = <<TRUE, FALSE>>
  /\ AcceptGlobResults = <<TRUE>>
  /\ AcceptChildrenResults = <<TRUE>>
  /\ RejectChildrenResults = << >>

\* the entry of the rule decision is past the reject glob, the directory
\* rules and the accept glob
PassesRejections ==
  /\ ~AnyFalse(RejectGlobResults)
  /\ rin.is_dir => ~Unwrap(Unwrap(rout).dir_rules).rejected
  /\ AcceptGlobResults = << >> \/ AnyTrue(AcceptGlobResults)

\* accept_by_children_dir where the closure reads it last: the inherited
\* flag for a file, the flag the directory rules left for a directory
RuleEffectiveFlag ==
  IF rin.is_dir
  THEN Unwrap(Unwrap(rout).dir_rules).accept_by_children_dir
  ELSE rin.flag

\* C14: an entry past the reject glob, the directory rules and the accept
\* glob is in the accepted set exactly when its effective flag is Unknown or
\* Accepted; with Rejected it is not accepted and registers no ancestor.
C14_AcceptedUnlessRejectedFlag ==
  (IsSome(rout) /\ PassesRejections) =>
    /\ RulesPath \in DOMAIN Unwrap(rout).fold.accepted
         <=> RuleEffectiveFlag \in {None, Some(TRUE)}
    /\ RuleEffectiveFlag = Some(FALSE)
         => Unwrap(rout).fold.accepted_ancestors = {}
    /\ RuleEffectiveFlag # Some(FALSE)
         => Unwrap(rout).fold.accepted_ancestors = {RulesDir}

\* a directory that inherited Unknown and whose
\* AcceptIfChildrenDirectoriesArePresent results are all false: its
\* effective flag is Rejected, and a true accept-glob result does not help
C14_Witness ==
  /\ IsSome(rout)
  /\ PassesRejections
  /\ rin.is_dir
  /\ rin.flag = None
  /\ AcceptChildrenResults = <<FALSE, FALSE>>
  /\ AcceptGlobResults = <<TRUE>>
  /\ RuleEffectiveFlag = Some(FALSE)
  /\ Unwrap(rout).fold.accepted = EmptyMap

\* nothing but the accept glob stands between the entry of the rule
\* decision and the accepted set
OnlyAcceptGlobDecides ==
  /\ ~AnyFalse(RejectGlobResults)
  /\ rin.is_dir => ~Unwrap(Unwrap(rout).dir_rules).rejected
  /\ RuleEffectiveFlag # Some(FALSE)

\* the entries of the tree with a true AcceptFilesByGlob result
GlobAccepted ==
  {p \in TreePaths : AnyTrue(tree.acceptance[p]["AcceptFilesByGlob"])}

\* C15: an entry with AcceptFilesByGlob results is rejected when all of them
\* are false and is not rejected by them when one is true; without
\* AcceptFilesByGlob results the step rejects nothing.  In a walk with
\* AcceptFilesByGlob rules only, the entries reported are the entries with a
\* true result and the directories above them below the walk root.
C15_AcceptGlob ==
  /\ IsSome(rout) =>
       /\ (AcceptGlobResults # << >> /\ AllFalse(AcceptGlobResults))
            => RulesPath \notin DOMAIN Unwrap(rout).fold.accepted
       /\ (AnyTrue(AcceptGlobResults) /\ OnlyAcceptGlobDecides)
            => RulesPath \in DOMAIN Unwrap(rout).fold.accepted
       /\ (AcceptGlobResults = << >> /\ OnlyAcceptGlobDecides)
            => RulesPath \in DOMAIN Unwrap(rout).fold.accepted
  /\ (WalkFinished /\ tree.rules = {"AcceptFilesByGlob"}) =>
       /\ TreeAccepted = GlobAccepted
       /\ TreeReported =
            GlobAccepted \cup
              {d \in TreeDirs : \E p \in GlobAccepted : StrictlyBelow(d, p)}

\* the walk of test_only_photos: the two files of a/a have a true result,
\* no directory has; the files and the directories a/a and a are reported
C15_Witness ==
  /\ WalkFinished
  /\ tree.rules = {"AcceptFilesByGlob"}
  /\ GlobAccepted = ChildrenOf(root \o <<"a", "a">>)
  /\ TreeReported =
       ChildrenOf(root \o <<"a", "a">>) \cup {root \o <<"a", "a">>, root \o <<"a">>}

\* C16: under a dispatcher a directory that passes the reject glob and is
\* not hard-rejected is queued exactly once, with its path, its effective
\* flag and the directory of the task as parent, also when it is left out of
\* the accepted set; the task made from the queued entry is dispatched, and
\* when the walk is finished it has run.
C16_QueuedOnce ==
  /\ (/\ IsSome(rout)
      /\ rin.is_dir
      /\ rin.dispatcher
      /\ ~AnyFalse(RejectGlobResults)
      /\ ~Unwrap(Unwrap(rout).dir_rules).rejected) =>
       Unwrap(rout).fold.maybe_to_keep_walking =
         Some(SetToBag({ToWalkEntry(RulesPath, RuleEffectiveFlag,
                                    Some(RulesDir))}))
  /\ \A o \in outputs :
     \A d \in ChildrenOf(o.task.entry.path) \cap TreeDirs :
       ~Dropped(d) =>
         \E t \in BagToSet(o.output.handles) :
           /\ t.entry.path = d
           /\ t.entry.maybe_parent = Some(o.task.entry.path)
           /\ CopiesIn(t, o.output.handles) = 1
           /\ \A u \in BagToSet(o.output.handles) : u.entry.path = d => u = t
           /\ t \in pool \/ \E oc \in outputs : oc.task = t
           /\ WalkFinished => \E oc \in outputs : oc.task = t

\* directory a has no true AcceptIfChildrenDirectoriesArePresent result
\* and is left out of the accepted set; the task queued for it has run and
\* accepted its directory a/a, which has a true result
C16_Witness ==
  /\ WalkFinished
  /\ tree.rules = {"AcceptIfChildrenDirectoriesArePresent"}
  /\ root \o <<"a">> \notin TreeAccepted
  /\ \E o \in outputs :
       /\ o.task.entry =
            ToWalkEntry(root \o <<"a">>, Some(FALSE), Some(root))
       /\ root \o <<"a", "a">> \in AcceptedIn(o)

\* the directories above p, strictly below the walk root
AncestorsBelowRoot(p) ==
  {SubSeq(p, 1, k) : k \in (Len(root) + 1)..(Len(p) - 1)}

\* C17: in every WalkOutput every ancestor directory of every accepted
\* path, strictly below the walk root, is in accepted_ancestors, whether the
\* path is the first one accepted under it or a later one, and the walk root
\* is not.
C17_AncestorsRegistered ==
  \A o \in outputs :
    /\ \A p \in AcceptedIn(o) :
         AncestorsBelowRoot(p) \subseteq o.output.accepted_ancestors
    /\ root \notin o.output.accepted_ancestors

\* the task of directory a/a has accepted its two files, which share the
\* ancestors a/a and a
C17_Witness ==
  \E o \in outputs :
    /\ o.task.entry.path = root \o <<"a", "a">>
    /\ AcceptedIn(o) = ChildrenOf(root \o <<"a", "a">>)
    /\ Cardinality(AcceptedIn(o)) = 2
    /\ o.output.accepted_ancestors = {root \o <<"a", "a">>, root \o <<"a">>}

\* the isolated paths of a bag of walked entries
IsoPaths(entries) == {e.iso_file_path : e \in BagToSet(entries)}

\* the records of the store with the isolated path of walking entry e
RecordsOf(e) ==
  {r \in Unwrap(din).store : r.iso_file_path = e.iso_file_path}

\* the segregation has returned Ok((to_create, to_update, total_size))
DiffDone == IsSome(dout) /\ Unwrap(dout).ok

\* C18: every to_update entry has a persisted record with its isolated
\* path; a walking entry is in to_create exactly when no persisted record
\* has its isolated path; no entry is in both.
C18_CreateUpdatePartition ==
  DiffDone =>
    LET seg == Unwrap(dout).val
    IN /\ \A u \in BagToSet(seg.to_update) :
            \E r \in Unwrap(din).store : r.iso_file_path = u.iso_file_path
       /\ \A e \in BagToSet(Unwrap(din).walking_entries) :
            e.iso_file_path \in IsoPaths(seg.to_create) <=> RecordsOf(e) = {}
       /\ IsoPaths(seg.to_create) \cap IsoPaths(seg.to_update) = {}

\* entry a has a record whose inode is unset and is in neither set, while
\* entry b has none and is created
C18_Witness ==
  /\ DiffDone
  /\ \E e \in BagToSet(Unwrap(din).walking_entries) :
       /\ e.iso_file_path.relative_path = <<"a">>
       /\ \E r \in RecordsOf(e) : r.inode = None
  /\ IsoPaths(Unwrap(dout).val.to_create)
       = {IsolatedFilePathData(root, DiffPathB, FALSE)}
  /\ Unwrap(dout).val.to_update = EmptyBag

\* walking entry e is a file with a record r whose inode, modification
\* time and hidden flag are set
FileWithRecord(e, r) ==
  /\ ~e.iso_file_path.is_dir
  /\ r \in RecordsOf(e)
  /\ IsSome(r.inode)
  /\ IsSome(r.date_modified)
  /\ IsSome(r.hidden)

\* |observed - stored| modification time, in milliseconds
TimeDistance(e, r) ==
  IF e.metadata.modified_at >= Unwrap(r.date_modified)
  THEN e.metadata.modified_at - Unwrap(r.date_modified)
  ELSE Unwrap(r.date_modified) - e.metadata.modified_at

\* C19 (as stated): a file entry with a persisted record is in to_update
\* whenever the stored inode differs from the observed one or the stored
\* modification time differs from the observed one by more than 1
\* millisecond, later or earlier; with a difference of at most 1
\* millisecond, an equal inode and an equal hidden flag it is not.
C19_Original ==
  DiffDone =>
    \A e \in BagToSet(Unwrap(din).walking_entries) :
    \A r \in Unwrap(din).store :
      FileWithRecord(e, r) =>
        /\ (\/ Unwrap(r.inode) # e.metadata.inode
            \/ TimeDistance(e, r) > UpdateDeltaMillis)
             => e.iso_file_path \in IsoPaths(Unwrap(dout).val.to_update)
        /\ (/\ Unwrap(r.inode) = e.metadata.inode
            /\ TimeDistance(e, r) <= UpdateDeltaMillis
            /\ Unwrap(r.hidden) = e.metadata.hidden)
             => e.iso_file_path \notin IsoPaths(Unwrap(dout).val.to_update)

\* file a was observed with a modification time 2 milliseconds before the
\* stored one, the same inode and the same hidden flag, and is not in
\* to_update
C19_Witness ==
  /\ DiffDone
  /\ \E e \in BagToSet(Unwrap(din).walking_entries) :
     \E r \in Unwrap(din).store :
       /\ FileWithRecord(e, r)
       /\ e.metadata.modified_at = 8
       /\ Unwrap(r.date_modified) = 10
       /\ Unwrap(r.inode) = e.metadata.inode
       /\ Unwrap(r.hidden) = e.metadata.hidden
       /\ e.iso_file_path \notin IsoPaths(Unwrap(dout).val.to_update)

\* walking entry e has a record r whose hidden flag is unset and whose
\* inode and modification time are those observed
UnsetHiddenOnly(e, r) ==
  /\ r \in RecordsOf(e)
  /\ r.hidden = None
  /\ r.inode = Some(e.metadata.inode)
  /\ r.date_modified = Some(e.metadata.modified_at)

\* C20 (as stated): an unset stored hidden flag counts as not hidden: an
\* entry whose record has an unset hidden flag, the observed inode and the
\* observed modification time is in to_update exactly when it is observed
\* hidden.
C20_Original ==
  DiffDone =>
    \A e \in BagToSet(Unwrap(din).walking_entries) :
    \A r \in Unwrap(din).store :
      (UnsetHiddenOnly(e, r) /\ ~e.iso_file_path.is_dir) =>
        (e.iso_file_path \in IsoPaths(Unwrap(dout).val.to_update)
           <=> e.metadata.hidden)

\* C20 (amended): an unset stored hidden flag is a difference by itself: an
\* entry whose record has an unset hidden flag, the observed inode and the
\* observed modification time is in to_update whether it is observed hidden
\* or not, unless it is a directory whose observed size differs from the
\* stored one.
C20_UnsetHiddenUpdates ==
  DiffDone =>
    \A e \in BagToSet(Unwrap(din).walking_entries) :
    \A r \in Unwrap(din).store :
      UnsetHiddenOnly(e, r) =>
        (e.iso_file_path \in IsoPaths(Unwrap(dout).val.to_update)
           <=> ~(/\ e.iso_file_path.is_dir
                 /\ e.metadata.size_in_bytes
                      # unwrap_or(r.size_in_bytes_bytes, 0)))

\* file a is not hidden, its record has an unset hidden flag and nothing
\* else differs, and it is in to_update
C20_Witness ==
  /\ DiffDone
  /\ \E e \in BagToSet(Unwrap(din).walking_entries) :
     \E r \in Unwrap(din).store :
       /\ UnsetHiddenOnly(e, r)
       /\ ~e.iso_file_path.is_dir
       /\ ~e.metadata.hidden
       /\ r.size_in_bytes_bytes = Some(e.metadata.size_in_bytes)
       /\ e.iso_file_path \in IsoPaths(Unwrap(dout).val.to_update)


\* walking entry e is a directory with a record r whose inode, modification
\* time, hidden flag and size are set
DirWithRecord(e, r) ==
  /\ e.iso_file_path.is_dir
  /\ r \in RecordsOf(e)
  /\ IsSome(r.inode)
  /\ IsSome(r.date_modified)
  /\ IsSome(r.hidden)
  /\ IsSome(r.size_in_bytes_bytes)

\* the inode, the modification time (observed more than 1 millisecond after
\* the stored one) or the hidden flag of e differs from record r
OtherDiscrepancy(e, r) ==
  \/ Unwrap(r.inode) # e.metadata.inode
  \/ e.metadata.modified_at - Unwrap(r.date_modified) > UpdateDeltaMillis
  \/ Unwrap(r.hidden) # e.metadata.hidden

\* C21 (as stated): a directory entry whose observed size differs from the
\* stored size and whose inode, modification time (by more than 1
\* millisecond) or hidden flag also differs is in to_update, and a
\* directory whose only difference is its size is not.
C21_Original ==
  DiffDone =>
    \A e \in BagToSet(Unwrap(din).walking_entries) :
    \A r \in Unwrap(din).store :
      (/\ DirWithRecord(e, r)
       /\ Unwrap(r.size_in_bytes_bytes) # e.metadata.size_in_bytes) =>
        (e.iso_file_path \in IsoPaths(Unwrap(dout).val.to_update)
           <=> OtherDiscrepancy(e, r))

\* directory a was observed with another inode and another size than the
\* stored ones, and is not in to_update
C21_Witness ==
  /\ DiffDone
  /\ \E e \in BagToSet(Unwrap(din).walking_entries) :
     \E r \in Unwrap(din).store :
       /\ DirWithRecord(e, r)
       /\ e.metadata.inode = 2
       /\ Unwrap(r.inode) = 1
       /\ e.metadata.size_in_bytes = 2
       /\ Unwrap(r.size_in_bytes_bytes) = 1
       /\ e.iso_file_path \notin IsoPaths(Unwrap(dout).val.to_update)


ReportCount(p) ==
  Cardinality({<<o, e>> \in outputs \X UNION {BagToSet(o.output.to_create) : o \in outputs} :
                 /\ e \in BagToSet(o.output.to_create)
                 /\ JoinRoot(root, e.iso_file_path) = p})

\* every entry of a to_create is in it once
NoDuplicates ==
  \A o \in outputs : \A e \in BagToSet(o.output.to_create) :
    o.output.to_create[e] = 1

\* C23: with no rule configured, an empty store and a dispatcher, once
\* every task of the recursive walk is done the to_create of the tasks
\* together with the accepted ancestors are exactly the files and
\* directories below the walk root, empty directories included, and every
\* one of them is in the to_create of exactly one task, once.
C23_CompleteListing ==
  (tree # None /\ tree.rules = {} /\ db = {} /\ WalkFinished) =>
    /\ TreeReported = tree.paths
    /\ TreeAccepted = tree.paths
    /\ NoDuplicates
    /\ \A p \in tree.paths : ReportCount(p) = 1

\* the walk of the whole location is over: five tasks, seven entries, the
\* empty directory a/b among them
C23_Witness ==
  /\ tree # None
  /\ tree.rules = {}
  /\ tree.paths = TreePaths
  /\ WalkFinished
  /\ Cardinality(outputs) = 5
  /\ root \o <<"a", "b">> \in TreeAccepted
  /\ \E o \in outputs :
       /\ o.task.entry.path = root \o <<"a", "b">>
       /\ o.output.to_create = EmptyBag


\* path p is directory d or below it
WithinSubtree(d, p) == p = d \/ StrictlyBelow(d, p)

\* directory d of the tree is rejected by a RejectFilesByGlob rule
RejectedByGlob(d) ==
  /\ d \in TreeDirs
  /\ rejected_by_reject_glob(tree.acceptance[d])

\* the paths of the to_update of the outputs gathered
TreeUpdated ==
  UNION {{JoinRoot(root, e.iso_file_path) : e \in BagToSet(o.output.to_update)} : o \in outputs}

\* C24: for a directory rejected by a RejectFilesByGlob rule no task is
\* dispatched or run, neither it nor any entry below it is in the
\* to_create, to_update or accepted_ancestors of any task of the walk, and
\* the WalkOutput of the task of its parent is the one of the same task
\* over the parent directory without it.
C24_RejectedSubtreeExcluded ==
  tree # None =>
    \A d \in TreeDirs :
      RejectedByGlob(d) =>
        /\ \A t \in pool : t.entry.path # d
        /\ \A o \in outputs : o.task.entry.path # d
        /\ \A p \in TreePaths :
             WithinSubtree(d, p) =>
               p \notin TreeAccepted \cup TreeUpdated \cup TreeAncestors
        /\ \A o \in outputs :
             o.task.entry.path = ParentOf(d) =>
               o.output =
                 ReferenceRun(
                   TreeWorldOver(o.task.entry, ChildrenOf(ParentOf(d)) \ {d}),
                   o.task.maybe_dispatcher, db)

\* the walk is over; directory a/a, which holds two files, is rejected by
\* the glob, and its sibling a/b is accepted by the task of a
C24_Witness ==
  /\ tree # None
  /\ WalkFinished
  /\ RejectedByGlob(root \o <<"a", "a">>)
  /\ root \o <<"a", "b">> \in TreeAccepted
  /\ \E o \in outputs : o.task.entry.path = root \o <<"a", "b">>


\* what process_rules_results returns in a run over the answers w of a task
\* built with or without a dispatcher
ReferenceRules(w, dispatcher) ==
  LET dir == w.entry.path
      cm == collect_metadata(StreamPaths(w.stream, dir), EmptyBag, w.stat)
      ar == apply_indexer_rules(cm.paths_and_metadatas, cm.errors, w.rules)
  IN process_rules_results(dir, root,
       w.entry.parent_dir_accepted_by_its_children,
       ar.paths_metadatas_and_acceptance, NewToKeepWalking(dispatcher))

\* the answers w, with every WalkDirTask::new a dispatcher would lead to
\* succeeding
WithDispatch(w) == [w EXCEPT !.new = [p \in DOMAIN w.stat |-> "ok"]]

\* the stages that hold the queue of subdirectories
QueueStages == {"GatheringFilePathsToRemove", "Finalize"}

\* C25: a task built without a dispatcher has no queue of subdirectories,
\* dispatches nothing and returns no handle, whatever it finds; its accepted
\* paths and accepted ancestors, and the to_create, to_update, to_remove
\* and total_size of its WalkOutput, are those of the task built with a
\* dispatcher that gets the same answers.
C25_NoDispatcherNoRecursion ==
  (status # "idle" /\ ~maybe_dispatcher) =>
    /\ dispatched = EmptyBag
    /\ stage.tag \in QueueStages => stage.maybe_to_keep_walking = None
    /\ stage.tag = "GatheringFilePathsToRemove" =>
         LET with == ReferenceRules(world, TRUE)
         IN /\ stage.accepted_paths = with.accepted
            /\ stage.accepted_ancestors = with.accepted_ancestors
    /\ status = "done" =>
         LET out == Unwrap(output)
             with == ReferenceRun(WithDispatch(world), TRUE, db)
         IN /\ out.handles = EmptyBag
            /\ out.to_create = with.to_create
            /\ out.to_update = with.to_update
            /\ out.to_remove = with.to_remove
            /\ out.accepted_ancestors = with.accepted_ancestors
            /\ out.total_size = with.total_size

\* a task without a dispatcher is done; it accepted a directory, which a
\* dispatcher would have got a task for
C25_Witness ==
  /\ ~maybe_dispatcher
  /\ status = "done"
  /\ Unwrap(output).handles = EmptyBag
  /\ \E e \in BagToSet(Unwrap(output).to_create) : e.iso_file_path.is_dir
  /\ ReferenceRun(WithDispatch(world), TRUE, db).handles # EmptyBag


\* C26: a task returns Done with the handles of its children in its
\* WalkOutput while none of them has been polled, and on a task system
\* that runs one task at a time the recursive walk of every tree ends with
\* every task done.
C26_NeverAwaitsChildren ==
  /\ [][\A o \in outputs' \ outputs :
          /\ BagToSet(o.output.handles) \subseteq pool'
          /\ \A h \in BagToSet(o.output.handles) :
               \A done \in outputs' : done.task # h]_vars
  /\ <>PoolFinished

\* the task of the walk root is done and the worker is free, while the
\* tasks of its two subdirectories, whose handles it returned, wait
C26_Witness ==
  /\ worker = None
  /\ \E o \in outputs :
       /\ o.task = RootTask
       /\ Cardinality(BagToSet(o.output.handles)) = 2
       /\ BagToSet(o.output.handles) \subseteq pool


\* the queued subdirectories whose WalkDirTask::new failed
FailedDispatches == {p \in DOMAIN world.new : world.new[p] = "err"}

\* the errors of kind DispatchKeepWalking in a bag of errors
DispatchErrors(errs) ==
  BagCardinality([e \in {x \in BagToSet(errs) : x.kind = "DispatchKeepWalking"} |-> errs[e]])

\* C27: when WalkDirTask::new fails for queued subdirectories the task is
\* Done; the batch given to dispatch_many holds one task for every queued
\* subdirectory whose construction succeeded and none for a failed one;
\* errors holds exactly one DispatchKeepWalking error per failed
\* subdirectory; and to_create, to_update and accepted_ancestors are those
\* of the run in which every construction succeeds.
C27_DispatchFailureDropsOne ==
  (status # "idle" /\ FailedDispatches # {}) =>
    /\ status = "done"
    /\ LET out == Unwrap(output)
           succeeded ==
             ReferenceRun([world EXCEPT !.new = [p \in DOMAIN world.new |-> "ok"]],
                          maybe_dispatcher, db)
       IN /\ \A h \in BagToSet(out.handles) : out.handles[h] = 1
          /\ {h.entry.path : h \in BagToSet(out.handles)}
               = DOMAIN world.new \ FailedDispatches
          /\ {h.entry.path : h \in BagToSet(succeeded.handles)}
               = DOMAIN world.new
          /\ dispatched = out.handles
          /\ \A p \in FailedDispatches :
               CopiesIn(NonCriticalError("DispatchKeepWalking", p), out.errors) = 1
          /\ DispatchErrors(out.errors) = Cardinality(FailedDispatches)
          /\ out.to_create = succeeded.to_create
          /\ out.to_update = succeeded.to_update
          /\ out.accepted_ancestors = succeeded.accepted_ancestors

\* two subdirectories were queued and created; the construction failed for
\* one, and the other was dispatched
C27_Witness ==
  /\ status = "done"
  /\ Cardinality(FailedDispatches) = 1
  /\ Cardinality(BagToSet(Unwrap(output).handles)) = 1
  /\ \A p \in DOMAIN world.new :
       \E e \in BagToSet(Unwrap(output).to_create) :
         JoinRoot(root, e.iso_file_path) = p


\* C28: under fair scheduling a task that is neither cancelled nor failed
\* by a fatal error eventually returns Done; it has a WalkOutput exactly
\* when it is Done, and that WalkOutput never changes; the recursive walk
\* of a tree runs only the task of the walk root and one task per
\* directory, no task finishes twice, and eventually every task is done.
C28_EventuallyDone ==
  /\ <>(TaskEnded \/ PoolFinished)
  /\ [](status = "done" <=> output # None)
  /\ [](status = "failed" <=> fatal # None)
  /\ [][output # None => output' = output]_vars
  /\ [](\A o \in outputs : o.task \in PoolTasks)
  /\ [](\A t \in pool : t \in PoolTasks)
  /\ [][\A o \in outputs' \ outputs :
          \A old \in outputs : old.task # o.task]_vars

\* a task that was suspended, resumed and met a failing collaborator is
\* Done after a directory stream of the longest length
C28_Witness ==
  /\ status = "done"
  /\ suspended # "never"
  /\ faults > 0
  /\ Len(world.stream) = MaxStream
  /\ output # None


\* the directories a task of the walk was dispatched for
TreeWalked ==
  {t.entry.path : t \in pool} \cup {o.task.entry.path : o \in outputs}

\* C29 (as stated): symbolic links are excluded unconditionally: an entry
\* that is a symbolic link is in no to_create, to_update or
\* accepted_ancestors, and no task is dispatched for it.
C29_Original ==
  tree # None =>
    \A p \in tree.links :
      /\ p \notin TreeAccepted
      /\ p \notin TreeUpdated
      /\ p \notin TreeAncestors
      /\ p \notin TreeWalked

\* the walk is over; b is a symbolic link to a directory and b/a a
\* symbolic link to a file: both are in a to_create, the task of b was
\* run, and b is an accepted ancestor
C29_Witness ==
  /\ tree # None
  /\ WalkFinished
  /\ tree.links = {root \o <<"b">>, root \o <<"b", "a">>}
  /\ tree.links \subseteq TreeAccepted
  /\ root \o <<"b">> \in TreeWalked
  /\ root \o <<"b">> \in TreeAncestors


\* the sum of the observed sizes of a set of walking entries
RECURSIVE SizeSum(_)
SizeSum(entries) ==
  IF entries = {} THEN 0
  ELSE LET e == CHOOSE e \in entries : TRUE
       IN e.metadata.size_in_bytes + SizeSum(entries \ {e})

\* C30: total_size of a segregation that returned Ok is the sum of the
\* observed sizes of all its walking entries, those that end in to_create,
\* those that end in to_update and those that end in neither, and is 0 when
\* there is no walking entry.
C30_TotalSizeOverAll ==
  (din # None /\ dout # None /\ Unwrap(dout).ok) =>
    /\ Unwrap(dout).val.total_size
         = SizeSum(BagToSet(Unwrap(din).walking_entries))
    /\ Unwrap(din).walking_entries = EmptyBag =>
         Unwrap(dout).val.total_size = 0

\* entry a of size 2 is unchanged (in neither to_create nor to_update),
\* entry b of size 1 is in to_update, and total_size is 3
C30_Witness ==
  /\ din # None
  /\ dout # None
  /\ Unwrap(dout).ok
  /\ \E a \in DiffEntriesA :
       /\ a.metadata.size_in_bytes = 2
       /\ Unwrap(din).walking_entries = SetToBag({a, DiffEntryB})
       /\ a.iso_file_path \notin IsoPaths(Unwrap(dout).val.to_create)
       /\ a.iso_file_path \notin IsoPaths(Unwrap(dout).val.to_update)
       /\ DiffEntryB.iso_file_path \in IsoPaths(Unwrap(dout).val.to_update)
  /\ Unwrap(dout).val.total_size = 3


\* the persisted records of the entry at path p
RecordsOfPath(p) ==
  {r \in db : \E is_dir \in BOOLEAN :
     WhereParam(r.iso_file_path)
       = WhereParam(IsolatedFilePathData(root, p, is_dir))}

\* C31 (as stated): no persisted record of an entry that the task accepted
\* is in to_remove of its WalkOutput, an accepted entry whose isolated-path
\* or metadata conversion failed included.
C31_Original ==
  status = "done" =>
    \A p \in DOMAIN world.conv :
      RecordsOfPath(p) \cap Unwrap(output).to_remove = {}

\* entry a was accepted, FilePathMetadata::from_path failed for it, and the
\* task is done with the record of a in to_remove
C31_Witness ==
  /\ status = "done"
  /\ \E p \in DOMAIN world.conv :
       /\ world.conv[p] = "metadata_err"
       /\ RecordsOfPath(p) # {}
       /\ RecordsOfPath(p) \subseteq Unwrap(output).to_remove


\* record r lacks its inode or its modification time
Unidentified(r) == r.inode = None \/ r.date_modified = None

\* C32: a walking entry that has a persisted record whose inode or
\* modification time is unset is in neither to_create nor to_update,
\* whatever was observed of it, and its size is part of total_size.
C32_UnidentifiedRecordSkipped ==
  DiffDone =>
    \A e \in BagToSet(Unwrap(din).walking_entries) :
      (\E r \in RecordsOf(e) : Unidentified(r)) =>
        /\ e.iso_file_path \notin IsoPaths(Unwrap(dout).val.to_create)
        /\ e.iso_file_path \notin IsoPaths(Unwrap(dout).val.to_update)
        /\ Unwrap(dout).val.total_size
             = e.metadata.size_in_bytes
                 + SizeSum(BagToSet(Unwrap(din).walking_entries) \ {e})

\* entry a was observed with another inode, a later modification time and
\* size 2; its record has no inode and no hidden flag; a is in neither set,
\* b is created and total_size is 3
C32_Witness ==
  /\ DiffDone
  /\ \E e \in BagToSet(Unwrap(din).walking_entries) :
     \E r \in RecordsOf(e) :
       /\ r.inode = None
       /\ r.date_modified = Some(10)
       /\ r.hidden = None
       /\ e.metadata.inode = 2
       /\ e.metadata.modified_at = 12
       /\ e.metadata.size_in_bytes = 2
       /\ e.iso_file_path \notin IsoPaths(Unwrap(dout).val.to_create)
       /\ e.iso_file_path \notin IsoPaths(Unwrap(dout).val.to_update)
  /\ DiffEntryB.iso_file_path \in IsoPaths(Unwrap(dout).val.to_create)
  /\ Unwrap(dout).val.total_size = 3


\* the Walk Tasks created so far: those waiting and those that have run
TasksCreated == pool \cup {o.task : o \in outputs}

\* path p is the walk root or below it
UnderRoot(p) == Len(p) >= Len(root) /\ SubSeq(p, 1, Len(root)) = root

\* C33: in the recursive walk of a tree a task hands out each of its
\* handles once and for a directory no task was created for before; every
\* created task walks the root or a directory below it and has the root of
\* the walk; the WalkOutput of the root task names no parent, and that of
\* every other task names the directory of the task that queued it.
C33_OneTaskPerDirectory ==
  /\ [][\A o \in outputs' \ outputs :
          \A h \in BagToSet(o.output.handles) :
            /\ CopiesIn(h, o.output.handles) = 1
            /\ \A u \in BagToSet(o.output.handles) :
                 u.entry.path = h.entry.path => u = h
            /\ \A t \in TasksCreated : t.entry.path # h.entry.path
            /\ h.root = o.task.root]_vars
  /\ [](\A t \in TasksCreated :
          /\ UnderRoot(t.entry.path)
          /\ t.root = root
          /\ \A u \in TasksCreated : u.entry.path = t.entry.path => u = t)
  /\ [](\A o \in outputs :
          /\ o.output.directory = o.task.entry.path
          /\ IF o.task = RootTask
             THEN o.output.maybe_parent = None
             ELSE \E q \in outputs :
                    /\ o.task \in BagToSet(q.output.handles)
                    /\ o.output.maybe_parent = Some(q.output.directory)
                    /\ ParentOf(o.output.directory) = q.output.directory)

\* the walk is over: the tasks of loc, loc/a and loc/a/a have run, and the
\* output of loc/a/a names loc/a as its parent
C33_Witness ==
  /\ WalkFinished
  /\ \E o \in outputs :
       /\ o.output.directory = root \o <<"a", "a">>
       /\ o.output.maybe_parent = Some(root \o <<"a">>)
       /\ o.task.root = root
  /\ \E q \in outputs :
       /\ q.output.directory = root \o <<"a">>
       /\ q.output.maybe_parent = Some(root)
       /\ BagCardinality(q.output.handles) = 2


\* the ConnectedPeer and DisconnectedPeer events sent for peer p, in order
PeerTrace(p) ==
  SelectSeq(events,
            LAMBDA e : /\ e.identity = p
                       /\ e.type \in {"ConnectedPeer", "DisconnectedPeer"})

\* ConnectedPeer, DisconnectedPeer, ConnectedPeer, ...
Alternates(trace) ==
  \A i \in 1..Len(trace) :
    trace[i].type = IF i % 2 = 1 THEN "ConnectedPeer" ELSE "DisconnectedPeer"

\* C34: a ConnectedPeer is sent only on receiving a PeerConnectedWith with
\* first_connection set, and a DisconnectedPeer only on receiving a
\* PeerDisconnectedWith with last_connection set, each for the peer of the
\* HookEvent; the two events sent for one peer alternate, the first being
\* ConnectedPeer; a Shutdown is the last HookEvent received, and once the
\* task has ended nothing is received or sent.
C34_ConnectionEventsAlternate ==
  /\ [][events' # events =>
          /\ forwarder = "running"
          /\ hook_rx # << >>
          /\ Len(events') = Len(events) + 1
          /\ SubSeq(events', 1, Len(events)) = events
          /\ LET h == Head(hook_rx)
                 e == events'[Len(events')]
             IN /\ e.type = "ConnectedPeer" =>
                     /\ h.variant = "PeerConnectedWith"
                     /\ h.flag
                     /\ h.peer = e.identity
                /\ e.type = "DisconnectedPeer" =>
                     /\ h.variant = "PeerDisconnectedWith"
                     /\ h.flag
                     /\ h.peer = e.identity]_vars
  /\ [](forwarder # "none" => \A p \in Peers : Alternates(PeerTrace(p)))
  /\ [](\A i \in 1..Len(received) :
          received[i].variant = "Shutdown" =>
            i = Len(received) /\ forwarder = "finished")
  /\ [][(forwarder \in {"finished", "panicked"}) =>
          /\ events' = events
          /\ received' = received
          /\ forwarder' = forwarder]_vars

\* peer p1 opened two connections, closed both and opened a third: of the
\* five HookEvents received three were forwarded, ConnectedPeer,
\* DisconnectedPeer and ConnectedPeer
C34_Witness ==
  /\ forwarder = "running"
  /\ Len(received) = 5
  /\ \A i \in 1..5 : received[i].peer = "p1"
  /\ ~received[2].flag
  /\ ~received[3].flag
  /\ Len(PeerTrace("p1")) = 3
  /\ events = PeerTrace("p1")


\* the header of stream h could not be read, or its Spacedrop, Sync or
\* File handler returned an error
StreamFailed(h) ==
  \/ h.header = "err"
  \/ h.header \in {"Spacedrop", "Sync", "File"} /\ h.result # "ok"

\* C35: the streams are dealt with in arrival order, each once, and a
\* stream is taken up only when the one before it is finished; a stream
\* whose header could not be read or whose Spacedrop, Sync or File handler
\* returned an error is the last one dealt with, and the loop has returned
\* an error; once the loop has returned no stream is taken up.
C35_FirstFailureEndsLoop ==
  /\ [](\A i \in 1..Len(handled) : handled[i].id = i)
  /\ [](current # None =>
          /\ Unwrap(current).id = Len(handled) + 1
          /\ receive_loop = "running")
  /\ [][(current # None /\ current' # None) =>
          Unwrap(current').id = Unwrap(current).id]_vars
  /\ [](\A i \in 1..Len(handled) :
          StreamFailed(handled[i]) =>
            i = Len(handled) /\ receive_loop = "err")
  /\ [](receive_loop = "err" =>
          handled # << >> /\ StreamFailed(handled[Len(handled)]))
  /\ [][(receive_loop \in {"ok", "err"}) =>
          /\ handled' = handled
          /\ current' = None
          /\ receive_loop' = receive_loop]_vars

\* three streams arrived; the first was a ping, the second a Sync for a
\* library the node does not have: the loop returned an error and the third
\* stream was never taken up
C35_Witness ==
  /\ arrived = 3
  /\ receive_loop = "err"
  /\ Len(handled) = 2
  /\ handled[1].header = "Ping"
  /\ handled[2].header = "Sync"
  /\ handled[2].result = "no_library"
  /\ current = None

=============================================================================
